---------------------------- MODULE Spec2Model ----------------------------
(***************************************************************************)
(* gitops-service: the push queue (src/queue/push-queue.js), the branch    *)
(* resolver (ensure-branch.js), the project bootstrapper                   *)
(* (ensure-project.js) and the feature publisher (create-feat-branch.js),  *)
(* run against a model of the hosting API's refs, git objects, file        *)
(* contents and pull requests.                                             *)
(***************************************************************************)
EXTENDS Integers, Sequences, FiniteSets, TLC

(***************************************************************************)
(* Bounds of the model.                                                    *)
(***************************************************************************)
NumTasks == 4
MaxConcurrency == 2
MaxDepthCfg == 1

Tasks == 1..NumTasks

VARIABLES
    concurrency,   \* CONCURRENCY, read once from PUSH_QUEUE_CONCURRENCY
    maxDepth,      \* PUSH_QUEUE_MAX_DEPTH as documented; push-queue.js never reads it
    active,        \* let active
    waiting,       \* const waiting: FIFO of the tasks not yet started
    tstate,        \* per task: new, waiting, running, hung, settled, released, rejected
    result,        \* per enqueue call: which task's outcome its promise settled with
    started,       \* history: the tasks in the order task() was invoked
    offered,       \* history: number of enqueue calls made so far
    depthAt,       \* history: waiting.length at the moment of each enqueue call
    pinged         \* history: the GET /ping requests answered, and the last answer's queue

qvars == <<concurrency, maxDepth, active, waiting, tstate, result, started,
           offered, depthAt, pinged>>

VARIABLES
    refs,      \* host: branch -> the commit it points at, NoRef when absent
    blobs,     \* host: the hashes of the blobs created through the git data API
    trees,     \* host: the trees created through the git data API
    prs,       \* host: the pull requests, each [head, base, open, labels]; number = index
    proc,      \* per caller: the position and the locals of its invocation
    rets,      \* history: per invocation, its outcome once it has finished
    created,   \* history: per branch, how many ref creations succeeded
    serial,    \* history: no invocation has started while another was in progress
    invoked,   \* history: number of invocations started
    initial    \* history: the remote state the run started from

gvars == <<refs, blobs, trees, prs, proc, rets, created, serial, invoked, initial>>
vars == <<qvars, gvars>>

(***************************************************************************)
(* push-queue.js                                                           *)
(***************************************************************************)
\* Faulty variant for C26: the loop keeps one slot spare.
CanStartKeepsSpare(act, w, c) == act + 1 < c /\ Len(w) > 0

\* Faulty variant for C1: the loop guard off by one.
CanStartOffByOne(act, w, c) == act <= c /\ Len(w) > 0

\* while (active < CONCURRENCY && waiting.length > 0)
CanStart(act, w, c) == act < c /\ Len(w) > 0

\* Faulty variant for C4: pop() instead of shift().
TakeLast(w) == [head |-> w[Len(w)], rest |-> SubSeq(w, 1, Len(w) - 1)]

\* waiting.shift()
Shift(w) == [head |-> Head(w), rest |-> Tail(w)]

\* drain(): starts waiting tasks while a slot is free.  task() is invoked
\* synchronously inside the loop, so `st' is the invocation order.
RECURSIVE drain(_, _, _, _)
drain(act, w, st, c) ==
    IF CanStart(act, w, c)
    THEN drain(act + 1, Shift(w).rest, Append(st, Shift(w).head), c)
    ELSE [active |-> act, waiting |-> w, started |-> st]

StartedBy(d) == {d.started[k] : k \in (Len(started) + 1)..Len(d.started)}

\* enqueue(task): push, then drain.  There is no depth check in the code.
enqueue(t) ==
    /\ t = offered + 1
    /\ t \in Tasks
    /\ LET d == drain(active, Append(waiting, t), started, concurrency)
       IN  /\ active' = d.active
           /\ waiting' = d.waiting
           /\ started' = d.started
           /\ tstate' = [tstate EXCEPT ![t] =
                            IF t \in StartedBy(d) THEN "running" ELSE "waiting"]
    /\ offered' = t
    /\ depthAt' = [depthAt EXCEPT ![t] = Len(waiting)]
    /\ UNCHANGED <<concurrency, maxDepth, result, pinged, gvars>>

\* The promise of no enqueue call has settled yet.
Unsettled == [task |-> 0, outcome |-> "none"]

\* Faulty variant for C16: every completion settles the promise of the call
\* whose task started first.
FirstStarted(t) == started[1]

\* const { task, resolve, reject } = waiting.shift(): the resolve and reject
\* passed to task().then(..).catch(..) are those of the enqueue call that
\* pushed the task.
Caller(t) == t

\* Faulty variant for C37: the caller's promise is settled in the callback
\* that gives the slot back and drains.
settleInFinally(t, outcome) ==
    /\ tstate[t] = "running"
    /\ result' = [result EXCEPT ![t] = [task |-> t, outcome |-> outcome]]
    /\ LET d == drain(active - 1, waiting, started, concurrency)
       IN  /\ active' = d.active
           /\ waiting' = d.waiting
           /\ started' = d.started
           /\ tstate' = [u \in Tasks |->
                            IF u = t THEN "released"
                            ELSE IF u \in StartedBy(d) THEN "running"
                            ELSE tstate[u]]
    /\ UNCHANGED <<concurrency, maxDepth, offered, depthAt, pinged, gvars>>

\* task().then(resolve).catch(reject): the task's promise settles and the
\* caller's promise is settled with the same outcome.  The .finally callback
\* runs in a later microtask.
settle(t, outcome) ==
    /\ tstate[t] = "running"
    /\ tstate' = [tstate EXCEPT ![t] = "settled"]
    /\ result' = [result EXCEPT ![Caller(t)] = [task |-> t, outcome |-> outcome]]
    /\ UNCHANGED <<concurrency, maxDepth, active, waiting, started, offered, depthAt,
                   pinged, gvars>>

\* Faulty variant for C35: the release callback gives back two slots.
FreedTwice(t) == 2

\* Faulty variant for C15: the slot is given back after a success only.
FreedOnSuccess(t) == IF result[t].outcome = "ok" THEN 1 ELSE 0

\* active--, in .finally: after a success and after a failure alike.
Freed(t) == 1

\* .finally(() => { active--; drain(); })
release(t) ==
    /\ tstate[t] = "settled"
    /\ LET d == drain(active - Freed(t), waiting, started, concurrency)
       IN  /\ active' = d.active
           /\ waiting' = d.waiting
           /\ started' = d.started
           /\ tstate' = [u \in Tasks |->
                            IF u = t THEN "released"
                            ELSE IF u \in StartedBy(d) THEN "running"
                            ELSE tstate[u]]
    /\ UNCHANGED <<concurrency, maxDepth, result, offered, depthAt, pinged, gvars>>

\* Faulty variant for C22: queued counts the running tasks as well.
statsQueuedWithActive ==
    [active |-> active, queued |-> Len(waiting) + active, concurrency |-> concurrency]

\* function stats() { return { active, queued: waiting.length, concurrency: CONCURRENCY }; }
stats == [active |-> active, queued |-> Len(waiting), concurrency |-> concurrency]

MaxPings == 2
NoPing == [n |-> 0, queue |-> [active |-> 0, queued |-> 0, concurrency |-> 0]]

\* GET /ping: res.json({ ok: true, queue: stats() }).  stats() only reads.
ping ==
    /\ pinged.n < MaxPings
    /\ pinged' = [n |-> pinged.n + 1, queue |-> stats]
    /\ UNCHANGED <<concurrency, maxDepth, active, waiting, tstate, result, started,
                   offered, depthAt, gvars>>

QInit ==
    /\ concurrency \in 1..MaxConcurrency
    /\ maxDepth \in 0..MaxDepthCfg
    /\ active = 0
    /\ waiting = <<>>
    /\ tstate = [t \in Tasks |-> "new"]
    /\ result = [t \in Tasks |-> Unsettled]
    /\ started = <<>>
    /\ offered = 0
    /\ depthAt = [t \in Tasks |-> 0]
    /\ pinged = NoPing

QNext ==
    \/ \E t \in Tasks : enqueue(t)
    \/ \E t \in Tasks, o \in {"ok", "fail"} : settle(t, o)
    \/ \E t \in Tasks : release(t)
    \/ ping

(***************************************************************************)
(* Claims about the queue.                                                 *)
(***************************************************************************)
Running == {t \in Tasks : tstate[t] = "running"}
Unreleased == {t \in Tasks : tstate[t] \in {"running", "settled"}}

\* C1: for every concurrency limit c >= 1, the number of tasks started and
\* not yet settled never exceeds c (nor does the number whose slot is not
\* yet released, which is what `active' counts).
C1_RunningWithinLimit ==
    /\ Cardinality(Running) <= concurrency
    /\ Cardinality(Unreleased) <= concurrency
    /\ active <= concurrency

\* C1 witness: the limit is reached while a task waits, after a completion.
C1_Witness ==
    /\ Cardinality(Running) = concurrency
    /\ Len(waiting) > 0
    /\ \E t \in Tasks : tstate[t] = "released"

\* C2: an enqueue call made while waiting.length >= maxDepth is rejected
\* (queue full, 503): the task is never put on the waiting list or started.
C2_QueueFullRejected ==
    \A t \in 1..offered : depthAt[t] >= maxDepth => tstate[t] = "rejected"

\* C3: when c + d + 1 tasks that do not complete are offered to an empty
\* queue, the first c + d are admitted (c running, d waiting) and the
\* (c + d + 1)-th is rejected.
C3_OverflowRejected ==
    (/\ offered = concurrency + maxDepth + 1
     /\ \A t \in 1..offered : tstate[t] \notin {"settled", "released"})
    => /\ Cardinality(Running) = concurrency
       /\ Len(waiting) = maxDepth
       /\ tstate[offered] = "rejected"

\* C4: admission is FIFO: tasks are started in the order they were enqueued
\* (task identifiers are handed out in enqueue order).
C4_FifoAdmission ==
    \A j, k \in 1..Len(started) : j < k => started[j] < started[k]

\* C4 witness: three tasks started, one of them after a completion freed a
\* slot while two were waiting.
C4_Witness ==
    /\ Len(started) >= 3
    /\ \E t \in Tasks : tstate[t] = "released"
    /\ \E t \in Tasks : tstate[t] = "waiting"


(***************************************************************************)
(* The hosting API (api.js sends every request to api.github.com) and the  *)
(* callers' inputs.                                                        *)
(***************************************************************************)
BranchCallers == 3
ProjectCallers == 2
FeatCallers == 2

Procs == 1..(IF BranchCallers >= ProjectCallers /\ BranchCallers >= FeatCallers
             THEN BranchCallers
             ELSE IF ProjectCallers >= FeatCallers THEN ProjectCallers
             ELSE FeatCallers)

RECURSIVE Join(_)
Join(cs) == IF cs = <<>> THEN "" ELSE Head(cs) \o Join(Tail(cs))

\* The project names callers supply, as sequences of characters: one that
\* is well formed, and an empty (or absent) one and one with a space.
GoodProjectNames == { <<"p", "r", "o", "j", "-", "a">> }
BadProjectNames == { <<>>, <<"p", "r", "o", "j", " ", "a">> }

Projects == {Join(n) : n \in GoodProjectNames}

\* The dir argument: absent, or the path of a directory.
Dirs == {"", "/srv/in"}

\* const masterBranch = `${project}-master`; const devBranch = `${project}-dev`
\* Faulty variant for C23: the bootstrap works on the default branch.
DefaultBranch(project) == "main"

masterBranch(project) == project \o "-master"
devBranch(project) == project \o "-dev"

\* Faulty variant for C31: no character is replaced or lowercased.
KeepChar(c) == c

\* feat_name.replace(/[^a-zA-Z0-9._-]/g, '-').toLowerCase(), on a name given
\* as a sequence of characters.
Lower == [c \in {"A", "D"} |-> IF c = "A" THEN "a" ELSE "d"]
Allowed == {"a", "d", "u", "t", "h", "A", "D", "0", ".", "_", "-"}
SanitizeChar(c) ==
    LET r == IF c \in Allowed THEN c ELSE "-"
    IN  IF r \in DOMAIN Lower THEN Lower[r] ELSE r

featId(feat_name) == Join([k \in 1..Len(feat_name) |-> SanitizeChar(feat_name[k])])

\* uuidv4(): the identifier the n-th call of the generator returns; the
\* generator returns no identifier twice.
uuidv4(n) == "uuid-" \o (<<"1", "2", "3", "4", "5", "6", "7", "8", "9">>)[n]

\* const featId = feat_name ? feat_name.replace(..).toLowerCase() : uuidv4()
\* in invocation n; no name and the empty name are <<>>.
featIdOf(feat_name, n) == IF feat_name # <<>> THEN featId(feat_name) ELSE uuidv4(n)

\* Faulty variant for C12: the branch is named by the id alone.
BareBranch(id) == id

\* const branch = `feat/${featId}`
featBranch(id) == "feat/" \o id

\* The feature names callers supply: "add-auth" and "Add Auth", which both
\* sanitize to "add-auth".
AddAuth == <<"a", "d", "d", "-", "a", "u", "t", "h">>
FeatNames == { AddAuth, <<"A", "d", "d", " ", "A", "u", "t", "h">> }

Branches ==
    {"main"} \cup {masterBranch(p) : p \in Projects} \cup {devBranch(p) : p \in Projects}
    \cup {featBranch(featId(n)) : n \in FeatNames}
    \cup {featBranch(uuidv4(n)) : n \in 1..FeatCallers}

\* File contents, as the bytes of the file.
Bytes ==
    [c \in {"svc", "ci-v0", "ci-v1", "review", "a1", "a2", "b1"} |->
        CASE c = "svc" -> <<9>>
          [] c = "ci-v0" -> <<1, 2>>
          [] c = "ci-v1" -> <<1, 3>>
          [] c = "review" -> <<4, 5, 6>>
          [] c = "a1" -> <<7>>
          [] c = "a2" -> <<8>>
          [] c = "b1" -> <<7, 8>>]
Contents == DOMAIN Bytes

\* A base-4 stand-in for base64: two symbols per byte, no line breaks
\* (Buffer.from(content).toString('base64')).
RECURSIVE Base64(_)
Base64(bs) ==
    IF bs = <<>> THEN <<>>
    ELSE <<Head(bs) \div 4, Head(bs) % 4>> \o Base64(Tail(bs))

\* The contents API returns the base64 text broken into lines.
NL == 99
LineWidth == 4
RECURSIVE WrapLines(_)
WrapLines(s) ==
    IF Len(s) <= LineWidth THEN s \o <<NL>>
    ELSE SubSeq(s, 1, LineWidth) \o <<NL>> \o WrapLines(SubSeq(s, LineWidth + 1, Len(s)))

\* Faulty variant for C8: the line breaks are not removed before comparing.
KeepNewlines(s) == s

\* .replace(/\n/g, '')
StripNewlines(s) == SelectSeq(s, LAMBDA x : x # NL)

\* The host decodes the base64 body of a content write.
Decode(s) == CHOOSE c \in Contents : Base64(Bytes[c]) = StripNewlines(s)

\* Blob hash of a content (content addressed).
BlobSha(c) == <<"blob", c>>

\* getBootstrapFiles(project): workflow files, then the agent files.
getBootstrapFiles(project) ==
    << [path |-> ".github/workflows/ci.yml", content |-> "ci-v1"],
       [path |-> ".github/scripts/review.js", content |-> "review"] >>

\* What an earlier bootstrap, from an older template, committed.
OldBootstrapTree ==
    (".github/workflows/ci.yml" :> "ci-v0") @@ (".github/scripts/review.js" :> "review")

\* The tree of the default branch: the service's own code.
MainTree == ("src/server.js" :> "svc")

\* readDirFiles(dir): the file list the callers push, a directory of two files.
FileLists ==
    { << [path |-> "a.js", content |-> "a1"], [path |-> "b.js", content |-> "b1"] >> }

\* readDirFiles(dir) when the directory is edited between publishes: the
\* list above, and the same directory after a.js was changed.
EditedFileLists ==
    FileLists \cup
    { << [path |-> "a.js", content |-> "a2"], [path |-> "b.js", content |-> "b1"] >> }


\* A commit: its hash (the invocation that made it and a number; 0 for
\* the commits the run starts from), its tree and its parents: none for a
\* root commit, and otherwise one, whose hash is not kept.
Commit(id, tree, parents) == [id |-> id, tree |-> tree, parents |-> parents]
NoRef == Commit(<<0, 0>>, <<>>, <<>>)
Exists(b) == refs[b] # NoRef

\* The requests an invocation has issued: how many of each kind, and for
\* the content writes also the branch and path of each, in order.
NoCalls == [refCreate |-> 0, blob |-> 0, tree |-> 0, commit |-> 0, put |-> 0,
            prCreate |-> 0, label |-> 0, writes |-> <<>>, readFailed |-> 0,
            failed |-> "none"]

IdleProc ==
    [pc |-> "idle", top |-> "none", project |-> "", dir |-> "", sha |-> NoRef, idx |-> 0,
     exSha |-> <<>>, posted |-> {}, tree |-> <<>>, isNew |-> FALSE, feat_name |-> <<>>,
     files |-> <<>>, featId |-> "", pr |-> 0, calls |-> NoCalls]

Busy(i) == proc[i].pc \notin {"idle", "done", "failed", "crashed"}

\* Host: the tree a branch points at.
TreeAt(b) == refs[b].tree

\* Host: GET /contents/{path}?ref={branch}
GetContents(b, path) ==
    IF Exists(b) /\ path \in DOMAIN TreeAt(b)
    THEN [found |-> TRUE, sha |-> BlobSha(TreeAt(b)[path]),
          content |-> WrapLines(Base64(Bytes[TreeAt(b)[path]]))]
    ELSE [found |-> FALSE, sha |-> <<>>, content |-> <<>>]

\* Faulty variant for C38: the host accepts every write on a branch that
\* exists, whatever hash is sent.
PutUnchecked(b, path, sha) == Exists(b)

\* Host: PUT /contents/{path} is accepted when the sha sent is the hash of
\* the file now on the branch (none sent when the file is absent).
PutAccepted(b, path, sha) ==
    /\ Exists(b)
    /\ sha = GetContents(b, path).sha

\* Host: GET /pulls?head=..&base=..&state=open
OpenPulls(head, base) ==
    {n \in 1..Len(prs) : prs[n].head = head /\ prs[n].base = base /\ prs[n].open}

Min(S) == CHOOSE n \in S : \A m \in S : n <= m

(***************************************************************************)
(* Invocation and return.                                                  *)
(***************************************************************************)
Count(i, what) == [proc[i].calls EXCEPT ![what] = @ + 1]
CountPut(i, b, path) == [Count(i, "put") EXCEPT !.writes = Append(@, <<b, path>>)]

\* The record of a finished invocation.
Outcome(i, ok, status, calls, pr) ==
    [op |-> proc[i].top, finished |-> TRUE, ok |-> ok, status |-> status,
     error |-> IF ok THEN "none" ELSE "GitHub API", calls |-> calls,
     masterBranch |-> masterBranch(proc[i].project),
     devBranch |-> devBranch(proc[i].project),
     branch |-> featBranch(proc[i].featId), files |-> proc[i].files,
     feat_name |-> proc[i].feat_name, pr_number |-> pr]

Pending ==
    [op |-> "none", finished |-> FALSE, ok |-> FALSE, status |-> 0, error |-> "none",
     calls |-> NoCalls,
     masterBranch |-> "", devBranch |-> "", branch |-> "", files |-> <<>>,
     feat_name |-> <<>>,
     pr_number |-> 0]

\* [a-zA-Z0-9_-], for the characters that occur in the names supplied.
ProjectChars == {"p", "r", "o", "j", "a", "A", "0", "_", "-"}

\* Faulty variant for C17: the pattern also admits a space.
LooseProjectName(project) ==
    /\ project # <<>>
    /\ \A k \in 1..Len(project) : project[k] \in (ProjectChars \cup {" "})

\* project && /^[a-zA-Z0-9_-]+$/.test(project)
ValidProjectName(project) ==
    /\ project # <<>>
    /\ \A k \in 1..Len(project) : project[k] \in ProjectChars

\* The checks made before the first request: those of createFeatBranch (a
\* project, a dir, a file in the directory), then the one of ensureProject.
\* ensureBranch checks nothing.
ValidationError(op, project, dir, files) ==
    IF op = "createFeatBranch" /\ project = <<>> THEN "project is required"
    ELSE IF op = "createFeatBranch" /\ dir = "" THEN "dir is required"
    ELSE IF op = "createFeatBranch" /\ files = <<>> THEN "No files found in directory"
    ELSE IF op # "ensureBranch" /\ ~ValidProjectName(project) THEN "Invalid project name"
    ELSE "none"

ValidationErrors ==
    {"project is required", "dir is required", "No files found in directory",
     "Invalid project name"}

\* An operation is invoked (invocations are numbered in the order they
\* start): it throws when a check fails, and otherwise goes on to its first
\* request; ensureProject and createFeatBranch begin in ensureOrphanBranch.
Invoke(i, op, project, dir, files, name) ==
    /\ proc[i].pc = "idle"
    /\ i = invoked + 1
    /\ invoked' = invoked + 1
    /\ serial' = (serial /\ \A j \in Procs : ~Busy(j))
    /\ IF ValidationError(op, project, dir, files) = "none"
       THEN /\ proc' = [proc EXCEPT ![i] =
                  [IdleProc EXCEPT !.pc = IF op = "ensureBranch" THEN "eb_getRef"
                                          ELSE "ob_getRef",
                                   !.top = op, !.project = Join(project),
                                   !.dir = dir, !.files = files,
                                   !.feat_name = IF op = "createFeatBranch"
                                                 THEN name ELSE <<>>,
                                   !.featId = IF op = "createFeatBranch"
                                              THEN featIdOf(name, i) ELSE ""]]
            /\ UNCHANGED rets
       ELSE /\ proc' = [proc EXCEPT ![i] = [IdleProc EXCEPT !.pc = "failed"]]
            /\ rets' = [rets EXCEPT ![i] =
                          [Pending EXCEPT !.op = op, !.finished = TRUE,
                                          !.error = ValidationError(op, project, dir, files)]]
    /\ UNCHANGED <<qvars, refs, blobs, trees, prs, created, initial>>

\* throw: the invocation rejects with the host's status.
Fail(i, status, calls) ==
    /\ proc' = [proc EXCEPT ![i] = [IdleProc EXCEPT !.pc = "failed"]]
    /\ rets' = [rets EXCEPT ![i] = Outcome(i, FALSE, status, calls, 0)]

\* ensureBranch has made sure the branch exists and returns: to its caller
\* when invoked directly, to ensureProject (which returns the two branch
\* names) or through it to createFeatBranch, which goes on to read the dev ref.
ReturnFromEnsureBranch(i, calls) ==
    IF proc[i].top = "createFeatBranch"
    THEN /\ proc' = [proc EXCEPT ![i].pc = "cf_getDevRef", ![i].calls = calls]
         /\ UNCHANGED rets
    ELSE /\ proc' = [proc EXCEPT ![i] = [IdleProc EXCEPT !.pc = "done"]]
         /\ rets' = [rets EXCEPT ![i] = Outcome(i, TRUE, 200, calls, 0)]

(***************************************************************************)
(* ensure-branch.js: ensureBranch(branch, sourceBranch), always called     *)
(* with ({project}-dev, {project}-master).                                 *)
(***************************************************************************)
\* Faulty variant for C34: a branch that is found is reset to the head of
\* {project}-master.
ResetToSource(i) == refs[masterBranch(proc[i].project)]

\* return; // already exists: the ref keeps its commit.
KeptRef(i) == refs[devBranch(proc[i].project)]

\* await githubApi(`${repo}/git/ref/heads/${branch}`): found, nothing to do.
ensureBranch_found(i) ==
    /\ proc[i].pc = "eb_getRef"
    /\ Exists(devBranch(proc[i].project))
    /\ refs' = [refs EXCEPT ![devBranch(proc[i].project)] = KeptRef(i)]
    /\ ReturnFromEnsureBranch(i, proc[i].calls)
    /\ UNCHANGED <<qvars, blobs, trees, prs, created, serial, invoked, initial>>

\* The read fails with 404: go on to read the source ref.
ensureBranch_missing(i) ==
    /\ proc[i].pc = "eb_getRef"
    /\ ~Exists(devBranch(proc[i].project))
    /\ proc' = [proc EXCEPT ![i].pc = "eb_getSource"]
    /\ UNCHANGED <<qvars, refs, blobs, trees, prs, rets, created, serial, invoked, initial>>

\* Faulty variant for C32: the dev branch is forked from the default branch.
SourceIsDefault(project) == "main"

\* await ensureBranch(devBranch, masterBranch): the source branch.
sourceBranch(project) == masterBranch(project)

\* const sourceRef = await githubApi(.../git/ref/heads/${sourceBranch})
ensureBranch_getSource(i) ==
    /\ proc[i].pc = "eb_getSource"
    /\ Exists(sourceBranch(proc[i].project))
    /\ proc' = [proc EXCEPT ![i].pc = "eb_createRef",
                            ![i].sha = refs[sourceBranch(proc[i].project)]]
    /\ UNCHANGED <<qvars, refs, blobs, trees, prs, rets, created, serial, invoked, initial>>

\* Faulty variant for C5: the 422 of a lost creation race is rethrown.
Rethrow422(status) == FALSE

\* catch (createErr) { if (createErr.status !== 422) throw createErr; }
Absorbed(status) == status = 422

\* POST /git/refs creates the ref.
ensureBranch_create(i) ==
    /\ proc[i].pc = "eb_createRef"
    /\ ~Exists(devBranch(proc[i].project))
    /\ refs' = [refs EXCEPT ![devBranch(proc[i].project)] = proc[i].sha]
    /\ created' = [created EXCEPT ![devBranch(proc[i].project)] = @ + 1]
    /\ ReturnFromEnsureBranch(i, Count(i, "refCreate"))
    /\ UNCHANGED <<qvars, blobs, trees, prs, serial, invoked, initial>>

\* POST /git/refs answers 422: a concurrent caller created the ref first.
ensureBranch_conflict(i) ==
    /\ proc[i].pc = "eb_createRef"
    /\ Exists(devBranch(proc[i].project))
    /\ IF Absorbed(422)
       THEN ReturnFromEnsureBranch(i, Count(i, "refCreate"))
       ELSE Fail(i, 422, Count(i, "refCreate"))
    /\ UNCHANGED <<qvars, refs, blobs, trees, prs, created, serial, invoked, initial>>

ensureBranch(i) ==
    \/ ensureBranch_found(i)
    \/ ensureBranch_missing(i)
    \/ ensureBranch_getSource(i)
    \/ ensureBranch_create(i)
    \/ ensureBranch_conflict(i)

(***************************************************************************)
(* Concurrent callers of ensureBranch on a bootstrapped project whose dev  *)
(* branch is absent.                                                       *)
(***************************************************************************)
BootstrapTree ==
    [p \in {f.path : f \in {getBootstrapFiles("proj-a")[k] :
                              k \in 1..Len(getBootstrapFiles("proj-a"))}} |->
        (CHOOSE f \in {getBootstrapFiles("proj-a")[k] :
                         k \in 1..Len(getBootstrapFiles("proj-a"))} : f.path = p).content]

GInitCommon ==
    /\ blobs = {}
    /\ trees = {}
    /\ prs = <<>>
    /\ proc = [i \in Procs |-> IdleProc]
    /\ rets = [i \in Procs |-> Pending]
    /\ created = [b \in Branches |-> 0]
    /\ serial = TRUE
    /\ invoked = 0

\* The queue, left as constructed, in the specifications of the remote side.
QIdle ==
    /\ concurrency = 1
    /\ maxDepth = 0
    /\ active = 0
    /\ waiting = <<>>
    /\ tstate = [t \in Tasks |-> "new"]
    /\ result = [t \in Tasks |-> Unsettled]
    /\ started = <<>>
    /\ offered = 0
    /\ depthAt = [t \in Tasks |-> 0]
    /\ pinged = NoPing

BranchInit ==
    /\ QIdle
    /\ GInitCommon
    /\ initial \in {"dev-absent", "dev-present"}
    /\ refs = [b \in Branches |->
                 IF b = "main" THEN Commit(<<0, 1>>, MainTree, <<>>)
                 ELSE IF b = masterBranch("proj-a")
                      \/ (b = devBranch("proj-a") /\ initial = "dev-present")
                 THEN Commit(<<0, 2>>, BootstrapTree, <<>>)
                 ELSE NoRef]

BranchNext ==
    \/ \E i \in 1..BranchCallers, p \in GoodProjectNames :
           Invoke(i, "ensureBranch", p, "", <<>>, <<>>)
    \/ \E i \in 1..BranchCallers : ensureBranch(i)

SpecBranch == BranchInit /\ [][BranchNext]_vars

(***************************************************************************)
(* ensureBranch against a host that may refuse a request, and with a       *)
(* source branch that may be absent.  calls.failed names the request of    *)
(* the invocation that was answered with such a failure.                   *)
(***************************************************************************)
RefFailures == {403, 500}
Failed(i, request) == [proc[i].calls EXCEPT !.failed = request]
FailedCreate(i) == [Count(i, "refCreate") EXCEPT !.failed = "createRef"]

\* Faulty variant for C24: every failure of the read counts as a missing branch.
AnyStatusMissing(status) == TRUE

\* catch (err) { if (err.status !== 404) throw err; ... }
Missing(status) == status = 404

\* The read of branch's ref fails with a status other than 404.
ensureBranch_getRefFailed(i, status) ==
    /\ proc[i].pc = "eb_getRef"
    /\ IF Missing(status)
       THEN /\ proc' = [proc EXCEPT ![i].pc = "eb_getSource",
                                    ![i].calls = Failed(i, "getRef")]
            /\ UNCHANGED rets
       ELSE Fail(i, status, Failed(i, "getRef"))
    /\ UNCHANGED <<qvars, refs, blobs, trees, prs, created, serial, invoked, initial>>

\* The status of a read of sourceBranch's ref that fails: 404 when the
\* branch is absent, any of the host's refusals otherwise.
SourceFailures(project) ==
    IF Exists(masterBranch(project)) THEN RefFailures ELSE {404}

\* const sourceRef = await githubApi(...) throws: the call is inside the
\* catch block of the first read and has no handler of its own.
ensureBranch_getSourceFailed(i, status) ==
    /\ proc[i].pc = "eb_getSource"
    /\ status \in SourceFailures(proc[i].project)
    /\ Fail(i, status, Failed(i, "getSource"))
    /\ UNCHANGED <<qvars, refs, blobs, trees, prs, created, serial, invoked, initial>>

\* POST /git/refs fails with a status other than 422.
ensureBranch_createFailed(i, status) ==
    /\ proc[i].pc = "eb_createRef"
    /\ IF Absorbed(status)
       THEN ReturnFromEnsureBranch(i, FailedCreate(i))
       ELSE Fail(i, status, FailedCreate(i))
    /\ UNCHANGED <<qvars, refs, blobs, trees, prs, created, serial, invoked, initial>>

BranchOutageInit ==
    /\ QIdle
    /\ GInitCommon
    /\ initial \in {"dev-absent", "dev-present", "source-absent"}
    /\ refs = [b \in Branches |->
                 IF b = "main" THEN Commit(<<0, 1>>, MainTree, <<>>)
                 ELSE IF (b = masterBranch("proj-a") /\ initial # "source-absent")
                      \/ (b = devBranch("proj-a") /\ initial = "dev-present")
                 THEN Commit(<<0, 2>>, BootstrapTree, <<>>)
                 ELSE NoRef]

BranchOutageNext ==
    \/ BranchNext
    \/ \E i \in 1..BranchCallers, status \in RefFailures :
           ensureBranch_getRefFailed(i, status)
    \/ \E i \in 1..BranchCallers, status \in RefFailures \cup {404} :
           ensureBranch_getSourceFailed(i, status)
    \/ \E i \in 1..BranchCallers, status \in RefFailures :
           ensureBranch_createFailed(i, status)

SpecBranchOutage == BranchOutageInit /\ [][BranchOutageNext]_vars

NoneBusy == \A i \in Procs : ~Busy(i)

\* C5: when ensureBranch(b, s) is invoked concurrently for the same absent b
\* (s existing), exactly one ref creation succeeds, exactly one b exists
\* afterwards, and every call resolves successfully.
C5_OneCreationAllResolve ==
    initial = "dev-absent" =>
        /\ created[devBranch("proj-a")] <= 1
        /\ \A k \in Procs : rets[k].finished => rets[k].ok
        /\ (invoked > 0 /\ NoneBusy) =>
              /\ created[devBranch("proj-a")] = 1
              /\ refs[devBranch("proj-a")] = refs[masterBranch("proj-a")]

\* C5 witness: three overlapping calls all issued the creation (two of them
\* were answered 422) and all have resolved.
C5_Witness ==
    /\ initial = "dev-absent"
    /\ \A k \in 1..3 : rets[k].ok /\ rets[k].calls.refCreate = 1
    /\ created[devBranch("proj-a")] = 1

(***************************************************************************)
(* ensure-project.js: ensureOrphanBranch, upsertBootstrapFiles and the     *)
(* rest of ensureProject.                                                  *)
(***************************************************************************)
NumBootstrapFiles(i) == Len(getBootstrapFiles(proc[i].project))

\* Host: a commit of one file on top of a branch (the contents API).
oneParent == <<"parent">>
CommitFile(id, b, path, content) ==
    Commit(id, (path :> content) @@ TreeAt(b), oneParent)

\* The hash of the commit invocation i is about to make: the invocation and
\* the place of the write in its run (0 for the root commit, then the
\* bootstrap files, then the pushed files).
NextId(i) ==
    <<i, CASE proc[i].pc = "up_put" -> proc[i].idx
           [] proc[i].pc = "cf_put" -> NumBootstrapFiles(i) + proc[i].idx
           [] OTHER -> 0>>

\* ensureOrphanBranch: the ref read finds the branch: return false, and
\* ensureProject runs upsertBootstrapFiles.
ensureOrphanBranch_found(i) ==
    /\ proc[i].pc = "ob_getRef"
    /\ Exists(masterBranch(proc[i].project))
    /\ proc' = [proc EXCEPT ![i].pc = "up_get", ![i].idx = 1, ![i].isNew = FALSE]
    /\ UNCHANGED <<qvars, refs, blobs, trees, prs, rets, created, serial, invoked, initial>>

\* The ref read fails with 404: the blob requests are issued.
ensureOrphanBranch_missing(i) ==
    /\ proc[i].pc = "ob_getRef"
    /\ ~Exists(masterBranch(proc[i].project))
    /\ proc' = [proc EXCEPT ![i].pc = "ob_blobs", ![i].posted = {}]
    /\ UNCHANGED <<qvars, refs, blobs, trees, prs, rets, created, serial, invoked, initial>>

\* Promise.all(bootstrapFiles.map(...)): one POST /git/blobs per file, served
\* in any order; the tree request follows the last answer.
ensureOrphanBranch_blob(i, k) ==
    /\ proc[i].pc = "ob_blobs"
    /\ k \in 1..NumBootstrapFiles(i)
    /\ k \notin proc[i].posted
    /\ blobs' = blobs \cup {BlobSha(getBootstrapFiles(proc[i].project)[k].content)}
    /\ proc' = [proc EXCEPT
                  ![i].posted = @ \cup {k},
                  ![i].calls = Count(i, "blob"),
                  ![i].pc = IF proc[i].posted \cup {k} = 1..NumBootstrapFiles(i)
                            THEN "ob_tree" ELSE "ob_blobs"]
    /\ UNCHANGED <<qvars, refs, trees, prs, rets, created, serial, invoked, initial>>

\* Faulty variant for C33: every entry of the tree is the first file's.
FirstEntryOnly(project) ==
    [k \in 1..Len(getBootstrapFiles(project)) |->
        [path |-> getBootstrapFiles(project)[1].path,
         sha |-> BlobSha(getBootstrapFiles(project)[1].content)]]

\* treeEntries: { path, mode, type, sha: blob.sha } per file.
treeEntries(project) ==
    [k \in 1..Len(getBootstrapFiles(project)) |->
        [path |-> getBootstrapFiles(project)[k].path,
         sha |-> BlobSha(getBootstrapFiles(project)[k].content)]]

\* Faulty variant for C10: the tree is built on top of the default branch's tree.
MainAsBaseTree == MainTree

\* body: JSON.stringify({ tree: treeEntries }): no base_tree.
baseTree == <<>>

\* Host: POST /git/trees: the base tree with the entries laid over it.
CreateTree(base, entries) ==
    [p \in {entries[k].path : k \in 1..Len(entries)} |->
        (CHOOSE c \in Contents :
            \E k \in 1..Len(entries) : entries[k].path = p /\ entries[k].sha = BlobSha(c))]
    @@ base

ensureOrphanBranch_tree(i) ==
    /\ proc[i].pc = "ob_tree"
    /\ \A k \in 1..NumBootstrapFiles(i) : treeEntries(proc[i].project)[k].sha \in blobs
    /\ LET t == CreateTree(baseTree, treeEntries(proc[i].project))
       IN  /\ trees' = trees \cup {t}
           /\ proc' = [proc EXCEPT ![i].pc = "ob_commit", ![i].tree = t,
                                   ![i].calls = Count(i, "tree")]
    /\ UNCHANGED <<qvars, refs, blobs, prs, rets, created, serial, invoked, initial>>

\* parents: []
rootParents == <<>>

\* POST /git/commits { message, tree: tree.sha, parents: [] }
ensureOrphanBranch_commit(i) ==
    /\ proc[i].pc = "ob_commit"
    /\ proc[i].tree \in trees
    /\ proc' = [proc EXCEPT ![i].pc = "ob_createRef",
                            ![i].sha = Commit(NextId(i), proc[i].tree, rootParents),
                            ![i].tree = <<>>, ![i].posted = {},
                            ![i].calls = Count(i, "commit")]
    /\ UNCHANGED <<qvars, refs, blobs, trees, prs, rets, created, serial, invoked, initial>>

\* POST /git/refs creates {project}-master: return true; ensureProject skips
\* the upsert and calls ensureBranch(devBranch, masterBranch).
ensureOrphanBranch_create(i) ==
    /\ proc[i].pc = "ob_createRef"
    /\ ~Exists(masterBranch(proc[i].project))
    /\ refs' = [refs EXCEPT ![masterBranch(proc[i].project)] = proc[i].sha]
    /\ created' = [created EXCEPT ![masterBranch(proc[i].project)] = @ + 1]
    /\ proc' = [proc EXCEPT ![i].pc = "eb_getRef", ![i].isNew = TRUE, ![i].sha = NoRef,
                            ![i].calls = Count(i, "refCreate")]
    /\ UNCHANGED <<qvars, blobs, trees, prs, rets, serial, invoked, initial>>

\* Faulty variant for C9: the 422 of the master ref creation is rethrown.
OrphanRethrow422(status) == FALSE

\* catch (createErr) { if (createErr.status !== 422) throw createErr; return false; }
OrphanAbsorbed(status) == status = 422

\* POST /git/refs answers 422: another caller created {project}-master in
\* the meantime; return false, so ensureProject runs the upsert.
ensureOrphanBranch_conflict(i) ==
    /\ proc[i].pc = "ob_createRef"
    /\ Exists(masterBranch(proc[i].project))
    /\ IF OrphanAbsorbed(422)
       THEN /\ proc' = [proc EXCEPT ![i].pc = "up_get", ![i].idx = 1,
                                    ![i].isNew = FALSE, ![i].sha = NoRef,
                                    ![i].calls = Count(i, "refCreate")]
            /\ UNCHANGED rets
       ELSE Fail(i, 422, Count(i, "refCreate"))
    /\ UNCHANGED <<qvars, refs, blobs, trees, prs, created, serial, invoked, initial>>

\* Faulty variant for C11: the dev branch is not ensured after the upsert.
AfterUpsertStops(i) ==
    IF proc[i].idx < NumBootstrapFiles(i) THEN "up_get" ELSE "done"

\* upsertBootstrapFiles: where the loop goes after file idx.
AfterUpsert(i) ==
    IF proc[i].idx < NumBootstrapFiles(i) THEN "up_get" ELSE "eb_getRef"

\* existingSha && existingContent === newContent.replace(/\n/g, '')
Identical(existing, content) ==
    /\ existing.found
    /\ StripNewlines(existing.content) = StripNewlines(Base64(Bytes[content]))

\* GET /contents/{path}?ref={branch}, then the comparison: an identical
\* file is skipped, any other goes on to the write.
upsertBootstrapFiles_get(i) ==
    /\ proc[i].pc = "up_get"
    /\ LET file == getBootstrapFiles(proc[i].project)[proc[i].idx]
           existing == GetContents(masterBranch(proc[i].project), file.path)
       IN  proc' = IF Identical(existing, file.content)
                   THEN [proc EXCEPT ![i].pc = AfterUpsert(i),
                                     ![i].idx = IF AfterUpsert(i) = "up_get"
                                                THEN proc[i].idx + 1 ELSE 0]
                   ELSE [proc EXCEPT ![i].pc = "up_put", ![i].exSha = existing.sha]
    /\ UNCHANGED <<qvars, refs, blobs, trees, prs, rets, created, serial, invoked, initial>>

\* Faulty variant for C27: the write never carries the hash that was read.
NoSha(existingSha) == <<>>

\* if (existingSha) body.sha = existingSha
bodySha(existingSha) == existingSha

\* PUT /contents/{path} { message, content, branch, sha? } is accepted.
upsertBootstrapFiles_put(i) ==
    /\ proc[i].pc = "up_put"
    /\ LET b == masterBranch(proc[i].project)
           file == getBootstrapFiles(proc[i].project)[proc[i].idx]
       IN  /\ PutAccepted(b, file.path, bodySha(proc[i].exSha))
           /\ refs' = [refs EXCEPT ![b] =
                         CommitFile(NextId(i), b, file.path,
                                    Decode(Base64(Bytes[file.content])))]
    /\ proc' = [proc EXCEPT ![i].pc = AfterUpsert(i),
                            ![i].idx = IF AfterUpsert(i) = "up_get"
                                       THEN proc[i].idx + 1 ELSE 0,
                            ![i].exSha = <<>>,
                            ![i].calls =
                                CountPut(i, masterBranch(proc[i].project),
                                         getBootstrapFiles(proc[i].project)[proc[i].idx].path)]
    /\ UNCHANGED <<qvars, blobs, trees, prs, rets, created, serial, invoked, initial>>

\* The status of a refused content write: 409 for a stale sha, 422 when the
\* file exists and no sha was sent.
PutStatus(sha) == IF sha = <<>> THEN 422 ELSE 409

\* PUT /contents/{path} is refused: the file changed since it was read.
upsertBootstrapFiles_putRefused(i) ==
    /\ proc[i].pc = "up_put"
    /\ ~PutAccepted(masterBranch(proc[i].project),
                    getBootstrapFiles(proc[i].project)[proc[i].idx].path,
                    bodySha(proc[i].exSha))
    /\ Fail(i, PutStatus(bodySha(proc[i].exSha)),
            CountPut(i, masterBranch(proc[i].project),
                     getBootstrapFiles(proc[i].project)[proc[i].idx].path))
    /\ UNCHANGED <<qvars, refs, blobs, trees, prs, created, serial, invoked, initial>>

ensureProject(i) ==
    \/ ensureOrphanBranch_found(i)
    \/ ensureOrphanBranch_missing(i)
    \/ \E k \in 1..NumBootstrapFiles(i) : ensureOrphanBranch_blob(i, k)
    \/ ensureOrphanBranch_tree(i)
    \/ ensureOrphanBranch_commit(i)
    \/ ensureOrphanBranch_create(i)
    \/ ensureOrphanBranch_conflict(i)
    \/ upsertBootstrapFiles_get(i)
    \/ upsertBootstrapFiles_put(i)
    \/ upsertBootstrapFiles_putRefused(i)
    \/ ensureBranch(i)

\* The remote state a bootstrap or a publish starts from: a repository with
\* only the default branch, a project bootstrapped from an older template,
\* or a project bootstrapped from the current one.
RemoteInit ==
    /\ initial \in {"fresh", "old-template", "bootstrapped"}
    /\ refs = [b \in Branches |->
                 IF b = "main" THEN Commit(<<0, 1>>, MainTree, <<>>)
                 ELSE IF b \in {masterBranch("proj-a"), devBranch("proj-a")}
                         /\ initial # "fresh"
                 THEN Commit(<<0, 2>>, IF initial = "old-template"
                                       THEN OldBootstrapTree ELSE BootstrapTree, <<>>)
                 ELSE NoRef]

ProjectInit == QIdle /\ GInitCommon /\ RemoteInit

ProjectNext ==
    \/ \E i \in 1..ProjectCallers, p \in GoodProjectNames :
           Invoke(i, "ensureProject", p, "", <<>>, <<>>)
    \/ \E i \in 1..ProjectCallers : ensureProject(i)

SpecProject == ProjectInit /\ [][ProjectNext]_vars

(***************************************************************************)
(* Bootstraps that may stop part-way: the service process dies between two *)
(* requests of a run, and POST /projects/:project/bootstrap is called      *)
(* again.                                                                  *)
(***************************************************************************)
\* The process running invocation i stops: no further request of the run is
\* issued and nothing is returned.
Crash(i) ==
    /\ Busy(i)
    /\ proc' = [proc EXCEPT ![i] = [IdleProc EXCEPT !.pc = "crashed"]]
    /\ UNCHANGED <<qvars, refs, blobs, trees, prs, rets, created, serial, invoked, initial>>

RecoverNext ==
    \/ ProjectNext
    \/ \E i \in 1..ProjectCallers : Crash(i)

\* Every awaited request of a run that has not stopped is answered, and the
\* run continues.
RecoverFairness == WF_vars(\E i \in 1..ProjectCallers : ensureProject(i))

SpecRecover == ProjectInit /\ [][RecoverNext]_vars /\ RecoverFairness

(***************************************************************************)
(* create-feat-branch.js: createFeatBranch, after ensureProject returned.  *)
(***************************************************************************)
\* const baseRef = await githubApi(`${repo}/git/ref/heads/${devBranch}`)
createFeatBranch_getDevRef(i) ==
    /\ proc[i].pc = "cf_getDevRef"
    /\ Exists(devBranch(proc[i].project))
    /\ proc' = [proc EXCEPT ![i].pc = "cf_createRef",
                            ![i].sha = refs[devBranch(proc[i].project)]]
    /\ UNCHANGED <<qvars, refs, blobs, trees, prs, rets, created, serial, invoked, initial>>

\* POST /git/refs creates feat/{featId} at baseSha.
createFeatBranch_createRef(i) ==
    /\ proc[i].pc = "cf_createRef"
    /\ ~Exists(featBranch(proc[i].featId))
    /\ refs' = [refs EXCEPT ![featBranch(proc[i].featId)] = proc[i].sha]
    /\ created' = [created EXCEPT ![featBranch(proc[i].featId)] = @ + 1]
    /\ proc' = [proc EXCEPT ![i].pc = "cf_get", ![i].idx = 1, ![i].sha = NoRef,
                            ![i].calls = Count(i, "refCreate")]
    /\ UNCHANGED <<qvars, blobs, trees, prs, rets, serial, invoked, initial>>

\* POST /git/refs answers 422: the branch exists; the files are pushed onto it.
createFeatBranch_refExists(i) ==
    /\ proc[i].pc = "cf_createRef"
    /\ Exists(featBranch(proc[i].featId))
    /\ proc' = [proc EXCEPT ![i].pc = "cf_get", ![i].idx = 1, ![i].sha = NoRef,
                            ![i].calls = Count(i, "refCreate")]
    /\ UNCHANGED <<qvars, refs, blobs, trees, prs, rets, created, serial, invoked, initial>>

\* Faulty variant for C28: the list is walked from its end.
fileFromEnd(files, idx) == files[Len(files) + 1 - idx]

\* for (const file of files): the file of the idx-th pass of the loop.
fileAt(files, idx) == files[idx]

\* GET /contents/{path}?ref={branch}: existingSha, undefined for a new file.
createFeatBranch_getFile(i) ==
    /\ proc[i].pc = "cf_get"
    /\ proc' = [proc EXCEPT
                  ![i].pc = "cf_put",
                  ![i].exSha = GetContents(featBranch(proc[i].featId),
                                           fileAt(proc[i].files, proc[i].idx).path).sha]
    /\ UNCHANGED <<qvars, refs, blobs, trees, prs, rets, created, serial, invoked, initial>>

\* Faulty variant for C29: the pull requests are queried after the first write.
AfterPushQueries(i) == "cf_listPRs"

\* The file loop: where it goes after the write of file idx.
AfterPush(i) == IF proc[i].idx < Len(proc[i].files) THEN "cf_get" ELSE "cf_listPRs"

\* Faulty variant for C40: the hash that was read is not sent.
OmitSha(existingSha) == <<>>

\* if (existingSha) body.sha = existingSha, in the file loop.
featBodySha(existingSha) == existingSha

\* PUT /contents/{path} is accepted; the loop goes on, to the pull-request
\* query after the last file.
createFeatBranch_putFile(i) ==
    /\ proc[i].pc = "cf_put"
    /\ LET b == featBranch(proc[i].featId)
           file == fileAt(proc[i].files, proc[i].idx)
       IN  /\ PutAccepted(b, file.path, featBodySha(proc[i].exSha))
           /\ refs' = [refs EXCEPT ![b] =
                         CommitFile(NextId(i), b, file.path,
                                    Decode(Base64(Bytes[file.content])))]
    /\ proc' = [proc EXCEPT
                  ![i].pc = AfterPush(i),
                  ![i].idx = IF AfterPush(i) = "cf_get" THEN proc[i].idx + 1 ELSE 0,
                  ![i].exSha = <<>>,
                  ![i].calls = CountPut(i, featBranch(proc[i].featId),
                                        fileAt(proc[i].files, proc[i].idx).path)]
    /\ UNCHANGED <<qvars, blobs, trees, prs, rets, created, serial, invoked, initial>>

\* PUT /contents/{path} is refused: the file changed since it was read.
createFeatBranch_putRefused(i) ==
    /\ proc[i].pc = "cf_put"
    /\ ~PutAccepted(featBranch(proc[i].featId),
                    fileAt(proc[i].files, proc[i].idx).path, featBodySha(proc[i].exSha))
    /\ Fail(i, PutStatus(featBodySha(proc[i].exSha)),
            CountPut(i, featBranch(proc[i].featId),
                     fileAt(proc[i].files, proc[i].idx).path))
    /\ UNCHANGED <<qvars, refs, blobs, trees, prs, created, serial, invoked, initial>>

\* Faulty variant for C7: the query's answer is ignored and a pull request is created.
NeverReuse(existingPRs) == FALSE

\* if (existingPRs.length > 0)
Reuse(existingPRs) == existingPRs # {}

\* return { feat_id, branch, project, dev_branch, pr_number, pr_url }
Return(i, calls, pr) ==
    /\ proc' = [proc EXCEPT ![i] = [IdleProc EXCEPT !.pc = "done"]]
    /\ rets' = [rets EXCEPT ![i] = Outcome(i, TRUE, 200, calls, pr)]

\* GET /pulls?head=..&base=..&state=open: pr = existingPRs[0] (the host lists
\* the newest first) and return, or go on to create one.
createFeatBranch_listPRs(i) ==
    /\ proc[i].pc = "cf_listPRs"
    /\ LET existingPRs == OpenPulls(featBranch(proc[i].featId),
                                    devBranch(proc[i].project))
       IN  IF Reuse(existingPRs)
           THEN Return(i, proc[i].calls, Min({n \in existingPRs :
                                               \A m \in existingPRs : m <= n}))
           ELSE /\ proc' = [proc EXCEPT ![i].pc = "cf_createPR"]
                /\ UNCHANGED rets
    /\ UNCHANGED <<qvars, refs, blobs, trees, prs, created, serial, invoked, initial>>

\* POST /pulls { title, head: branch, base: devBranch, body } creates the
\* pull request.
createFeatBranch_createPR(i) ==
    /\ proc[i].pc = "cf_createPR"
    /\ prs' = Append(prs, [head |-> featBranch(proc[i].featId),
                           base |-> devBranch(proc[i].project),
                           open |-> TRUE, labels |-> {}])
    /\ proc' = [proc EXCEPT ![i].pc = "cf_labels", ![i].pr = Len(prs) + 1,
                            ![i].calls = Count(i, "prCreate")]
    /\ UNCHANGED <<qvars, refs, blobs, trees, rets, created, serial, invoked, initial>>

\* POST /pulls is refused with 422 by a host that allows one open pull
\* request per head and base; the code handles no status of this call.
createFeatBranch_createPRRefused(i) ==
    /\ proc[i].pc = "cf_createPR"
    /\ OpenPulls(featBranch(proc[i].featId), devBranch(proc[i].project)) # {}
    /\ Fail(i, 422, Count(i, "prCreate"))
    /\ UNCHANGED <<qvars, refs, blobs, trees, prs, created, serial, invoked, initial>>

\* Faulty variant for C39: the labels go to the first pull request.
FirstPull(i) == 1

\* `${repo}/issues/${pr.number}/labels`: pr is the pull request just created.
LabelTarget(i) == proc[i].pr

\* POST /issues/{pr.number}/labels { labels: ['automated', project, ...labels] }
createFeatBranch_labels(i) ==
    /\ proc[i].pc = "cf_labels"
    /\ prs' = [prs EXCEPT ![LabelTarget(i)].labels = @ \cup {"automated", proc[i].project}]
    /\ Return(i, Count(i, "label"), proc[i].pr)
    /\ UNCHANGED <<qvars, refs, blobs, trees, created, serial, invoked, initial>>

\* The statuses a refused label request is answered with.
LabelFailures == {422, 500}

\* Faulty variant for C18: a failure of the label request is rethrown.
LabelFailureThrown(status) == FALSE

\* .catch(err => console.warn(...)): whatever the failure, it is logged only.
LabelFailureSwallowed(status) == TRUE

\* POST /issues/{pr.number}/labels fails: the pull request keeps its labels
\* and createFeatBranch returns it all the same.
createFeatBranch_labelsFailed(i, status) ==
    /\ proc[i].pc = "cf_labels"
    /\ IF LabelFailureSwallowed(status)
       THEN Return(i, Count(i, "label"), proc[i].pr)
       ELSE Fail(i, status, Count(i, "label"))
    /\ UNCHANGED <<qvars, refs, blobs, trees, prs, created, serial, invoked, initial>>

createFeatBranch(i) ==
    \/ ensureProject(i)
    \/ createFeatBranch_getDevRef(i)
    \/ createFeatBranch_createRef(i)
    \/ createFeatBranch_refExists(i)
    \/ createFeatBranch_getFile(i)
    \/ createFeatBranch_putFile(i)
    \/ createFeatBranch_putRefused(i)
    \/ createFeatBranch_listPRs(i)
    \/ createFeatBranch_createPR(i)
    \/ createFeatBranch_createPRRefused(i)
    \/ createFeatBranch_labels(i)
    \/ \E status \in LabelFailures : createFeatBranch_labelsFailed(i, status)

FeatInit == QIdle /\ GInitCommon /\ RemoteInit

FeatNext ==
    \/ \E i \in {invoked + 1} \cap (1..FeatCallers), p \in GoodProjectNames,
          files \in FileLists, n \in {AddAuth} :
           Invoke(i, "createFeatBranch", p, "/srv/in", files, n)
    \/ \E i \in 1..FeatCallers : createFeatBranch(i)

SpecFeat == FeatInit /\ [][FeatNext]_vars

\* Publishes of a directory that is edited between them.
RepublishNext ==
    \/ \E i \in {invoked + 1} \cap (1..FeatCallers), p \in GoodProjectNames,
          files \in EditedFileLists, n \in {AddAuth} :
           Invoke(i, "createFeatBranch", p, "/srv/in", files, n)
    \/ \E i \in 1..FeatCallers : createFeatBranch(i)

SpecRepublish == FeatInit /\ [][RepublishNext]_vars

(***************************************************************************)
(* Publishes on a bootstrapped project under the names callers supply, or  *)
(* under none.  On such a project the bootstrap part of a publish finds    *)
(* both branches and every file up to date.                                *)
(***************************************************************************)
NamesInit == FeatInit /\ initial = "bootstrapped"

NamesNext ==
    \/ \E i \in {invoked + 1} \cap (1..FeatCallers), p \in GoodProjectNames,
          files \in FileLists, n \in FeatNames \cup {<<>>} :
           Invoke(i, "createFeatBranch", p, "/srv/in", files, n)
    \/ \E i \in 1..FeatCallers : ensureOrphanBranch_found(i)
    \/ \E i \in 1..FeatCallers : upsertBootstrapFiles_get(i)
    \/ \E i \in 1..FeatCallers : ensureBranch_found(i)
    \/ \E i \in 1..FeatCallers : createFeatBranch_getDevRef(i)
    \/ \E i \in 1..FeatCallers : createFeatBranch_createRef(i)
    \/ \E i \in 1..FeatCallers : createFeatBranch_refExists(i)
    \/ \E i \in 1..FeatCallers : createFeatBranch_getFile(i)
    \/ \E i \in 1..FeatCallers : createFeatBranch_putFile(i)
    \/ \E i \in 1..FeatCallers : createFeatBranch_putRefused(i)
    \/ \E i \in 1..FeatCallers : createFeatBranch_listPRs(i)
    \/ \E i \in 1..FeatCallers : createFeatBranch_createPR(i)
    \/ \E i \in 1..FeatCallers : createFeatBranch_createPRRefused(i)
    \/ \E i \in 1..FeatCallers : createFeatBranch_labels(i)
    \/ \E i \in 1..FeatCallers, status \in LabelFailures :
           createFeatBranch_labelsFailed(i, status)

SpecNames == NamesInit /\ [][NamesNext]_vars

(***************************************************************************)
(* Publishes onto a feature branch that an earlier publish left behind:    *)
(* feat/add-auth holds a.js and b.js and has an open pull request into     *)
(* {project}-dev.  The bootstrap part of a publish finds everything in     *)
(* place, the ref creation is answered 422, and the callers push the       *)
(* directory as it was or with a.js edited.                                *)
(***************************************************************************)
PublishedTree ==
    ("a.js" :> "a1") @@ ("b.js" :> "b1") @@ BootstrapTree

PublishedInit ==
    /\ QIdle
    /\ initial = "published"
    /\ refs = [b \in Branches |->
                 IF b = "main" THEN Commit(<<0, 1>>, MainTree, <<>>)
                 ELSE IF b \in {masterBranch("proj-a"), devBranch("proj-a")}
                 THEN Commit(<<0, 2>>, BootstrapTree, <<>>)
                 ELSE IF b = featBranch("add-auth")
                 THEN Commit(<<0, 3>>, PublishedTree, oneParent)
                 ELSE NoRef]
    /\ blobs = {}
    /\ trees = {}
    /\ prs = << [head |-> featBranch("add-auth"), base |-> devBranch("proj-a"),
                 open |-> TRUE, labels |-> {"automated", "proj-a"}] >>
    /\ proc = [i \in Procs |-> IdleProc]
    /\ rets = [i \in Procs |-> Pending]
    /\ created = [b \in Branches |-> 0]
    /\ serial = TRUE
    /\ invoked = 0

RaceNext ==
    \/ \E i \in {invoked + 1} \cap (1..FeatCallers), p \in GoodProjectNames,
          files \in EditedFileLists, n \in {AddAuth} :
           Invoke(i, "createFeatBranch", p, "/srv/in", files, n)
    \/ \E i \in 1..FeatCallers : ensureOrphanBranch_found(i)
    \/ \E i \in 1..FeatCallers : upsertBootstrapFiles_get(i)
    \/ \E i \in 1..FeatCallers : ensureBranch_found(i)
    \/ \E i \in 1..FeatCallers : createFeatBranch_getDevRef(i)
    \/ \E i \in 1..FeatCallers : createFeatBranch_refExists(i)
    \/ \E i \in 1..FeatCallers : createFeatBranch_getFile(i)
    \/ \E i \in 1..FeatCallers : createFeatBranch_putFile(i)
    \/ \E i \in 1..FeatCallers : createFeatBranch_putRefused(i)
    \/ \E i \in 1..FeatCallers : createFeatBranch_listPRs(i)

SpecRace == PublishedInit /\ [][RaceNext]_vars

(***************************************************************************)
(* Publishes against a host whose file-content reads may fail with a       *)
(* status other than 404 (api.js: err.status of a response that is not     *)
(* ok).                                                                    *)
(***************************************************************************)
ReadFailures == {403, 500}

\* upsertBootstrapFiles: the read of file idx throws; catch (_) leaves
\* existingSha and existingContent undefined, whatever the status, so the
\* file is taken for a new one and written without a sha.
upsertBootstrapFiles_getFailed(i, status) ==
    /\ proc[i].pc = "up_get"
    /\ proc' = [proc EXCEPT ![i].pc = "up_put", ![i].exSha = <<>>,
                            ![i].calls = Count(i, "readFailed")]
    /\ UNCHANGED <<qvars, refs, blobs, trees, prs, rets, created, serial, invoked, initial>>

\* createFeatBranch: the read of file idx throws; catch (_) leaves
\* existingSha undefined, whatever the status, and the write follows.
createFeatBranch_getFileFailed(i, status) ==
    /\ proc[i].pc = "cf_get"
    /\ proc' = [proc EXCEPT ![i].pc = "cf_put", ![i].exSha = <<>>,
                            ![i].calls = Count(i, "readFailed")]
    /\ UNCHANGED <<qvars, refs, blobs, trees, prs, rets, created, serial, invoked, initial>>

OutageNext ==
    \/ FeatNext
    \/ \E i \in 1..FeatCallers, status \in ReadFailures :
           upsertBootstrapFiles_getFailed(i, status)
    \/ \E i \in 1..FeatCallers, status \in ReadFailures :
           createFeatBranch_getFileFailed(i, status)

SpecOutage == FeatInit /\ [][OutageNext]_vars

(***************************************************************************)
(* Publishes against a host that may refuse the creation of the feature    *)
(* branch with a status other than 422.                                    *)
(***************************************************************************)
\* Faulty variant for C30: every failure of the creation is absorbed.
AnyFailureAbsorbed(status) == TRUE

\* catch (err) { if (err.status !== 422) throw err; ... }
AlreadyExists(status) == status = 422

\* POST /git/refs for feat/{featId} fails with a status other than 422.
createFeatBranch_createRefFailed(i, status) ==
    /\ proc[i].pc = "cf_createRef"
    /\ IF AlreadyExists(status)
       THEN /\ proc' = [proc EXCEPT ![i].pc = "cf_get", ![i].idx = 1, ![i].sha = NoRef,
                                    ![i].calls = [Count(i, "refCreate")
                                                    EXCEPT !.failed = "featRef"]]
            /\ UNCHANGED rets
       ELSE Fail(i, status, [Count(i, "refCreate") EXCEPT !.failed = "featRef"])
    /\ UNCHANGED <<qvars, refs, blobs, trees, prs, created, serial, invoked, initial>>

RefOutageNext ==
    \/ FeatNext
    \/ \E i \in 1..FeatCallers, status \in RefFailures :
           createFeatBranch_createRefFailed(i, status)

SpecRefOutage == FeatInit /\ [][RefOutageNext]_vars

\* Publishes as above, among bootstraps and publishes whose arguments do
\* not pass the checks.
ValidateNext ==
    \/ \E i \in {invoked + 1} \cap (1..FeatCallers), p \in GoodProjectNames,
          files \in FileLists, n \in {AddAuth} :
           Invoke(i, "createFeatBranch", p, "/srv/in", files, n)
    \/ \E i \in {invoked + 1} \cap (1..FeatCallers),
          op \in {"ensureProject", "createFeatBranch"},
          p \in GoodProjectNames \cup BadProjectNames, dir \in Dirs,
          files \in FileLists \cup {<<>>}, n \in {AddAuth} :
           /\ \/ p \in BadProjectNames
              \/ op = "createFeatBranch" /\ (dir = "" \/ files = <<>>)
           /\ Invoke(i, op, p, dir, files, n)
    \/ \E i \in 1..FeatCallers : createFeatBranch(i)

SpecValidate == FeatInit /\ [][ValidateNext]_vars

(***************************************************************************)
(* The queue on its own: the remote side stays as it starts.               *)
(***************************************************************************)
Init ==
    /\ QInit
    /\ GInitCommon
    /\ initial = "fresh"
    /\ refs = [b \in Branches |->
                 IF b = "main" THEN Commit(<<0, 1>>, MainTree, <<>>) ELSE NoRef]

Spec == Init /\ [][QNext]_vars

(***************************************************************************)
(* The queue with a remote that may leave a request unanswered.            *)
(***************************************************************************)
\* api.js, githubApi: `await fetch(url, { ...options, headers })' is given no
\* signal and is raced against no timer, and GH_API_TIMEOUT_MS is not read;
\* when no response comes the await never resumes, and the task that
\* issued the request neither resolves nor rejects.
githubApi_unanswered(t) ==
    /\ tstate[t] = "running"
    /\ tstate' = [tstate EXCEPT ![t] = "hung"]
    /\ UNCHANGED <<concurrency, maxDepth, active, waiting, result, started, offered,
                   depthAt, pinged, gvars>>

HangNext ==
    \/ QNext
    \/ \E t \in Tasks : githubApi_unanswered(t)

\* A task all of whose requests are answered settles, and the .finally
\* callback of a settled task runs.
HangFairness ==
    \A t \in Tasks :
        /\ WF_vars(\E o \in {"ok", "fail"} : settle(t, o))
        /\ WF_vars(release(t))

SpecHang == Init /\ [][HangNext]_vars /\ HangFairness

(***************************************************************************)
(* Publishes on a bootstrapped project that fail part-way: the host        *)
(* answers a content write, the pull-request query or the pull-request     *)
(* creation with a failure, and the directory is published again.          *)
(***************************************************************************)
HostFailures == {403, 500}

\* await githubApi(`${repo}/contents/${file.path}`, { method: 'PUT', .. })
\* throws: nothing is written, and createFeatBranch rejects.
createFeatBranch_putFailed(i, status) ==
    /\ proc[i].pc = "cf_put"
    /\ Fail(i, status, [CountPut(i, featBranch(proc[i].featId),
                                 fileAt(proc[i].files, proc[i].idx).path)
                           EXCEPT !.failed = "put"])
    /\ UNCHANGED <<qvars, refs, blobs, trees, prs, created, serial, invoked, initial>>

\* The pull-request query, or POST /pulls, throws: no pull request is
\* created, and createFeatBranch rejects.
createFeatBranch_pullsFailed(i, status) ==
    /\ proc[i].pc \in {"cf_listPRs", "cf_createPR"}
    /\ Fail(i, status, [(IF proc[i].pc = "cf_createPR" THEN Count(i, "prCreate")
                         ELSE proc[i].calls) EXCEPT !.failed = "pulls"])
    /\ UNCHANGED <<qvars, refs, blobs, trees, prs, created, serial, invoked, initial>>

RetryInit == FeatInit /\ initial = "bootstrapped"

RetryNext ==
    \/ \E i \in {invoked + 1} \cap (1..FeatCallers), p \in GoodProjectNames,
          files \in FileLists, n \in {AddAuth} :
           Invoke(i, "createFeatBranch", p, "/srv/in", files, n)
    \/ \E i \in 1..FeatCallers : ensureOrphanBranch_found(i)
    \/ \E i \in 1..FeatCallers : upsertBootstrapFiles_get(i)
    \/ \E i \in 1..FeatCallers : ensureBranch_found(i)
    \/ \E i \in 1..FeatCallers : createFeatBranch_getDevRef(i)
    \/ \E i \in 1..FeatCallers : createFeatBranch_createRef(i)
    \/ \E i \in 1..FeatCallers : createFeatBranch_refExists(i)
    \/ \E i \in 1..FeatCallers : createFeatBranch_getFile(i)
    \/ \E i \in 1..FeatCallers : createFeatBranch_putFile(i)
    \/ \E i \in 1..FeatCallers : createFeatBranch_putRefused(i)
    \/ \E i \in 1..FeatCallers, status \in HostFailures :
           createFeatBranch_putFailed(i, status)
    \/ \E i \in 1..FeatCallers : createFeatBranch_listPRs(i)
    \/ \E i \in 1..FeatCallers : createFeatBranch_createPR(i)
    \/ \E i \in 1..FeatCallers : createFeatBranch_createPRRefused(i)
    \/ \E i \in 1..FeatCallers, status \in HostFailures :
           createFeatBranch_pullsFailed(i, status)
    \/ \E i \in 1..FeatCallers : createFeatBranch_labels(i)
    \/ \E i \in 1..FeatCallers, status \in LabelFailures :
           createFeatBranch_labelsFailed(i, status)

SpecRetry == RetryInit /\ [][RetryNext]_vars

(***************************************************************************)
(* Task functions that throw when they are invoked instead of returning a  *)
(* promise.  drain() calls task() inside its loop, after active++ and      *)
(* before .then/.catch/.finally are attached, so the exception leaves      *)
(* drain(): into the executor of the promise enqueue is building, which    *)
(* rejects that promise, or out of the .finally callback of the task that  *)
(* just gave its slot back, where nobody handles it.                       *)
(***************************************************************************)
\* drain() when the tasks in T throw on invocation: the loop ends at the
\* first of them, which has left the waiting list and taken a slot.
RECURSIVE drainThrowing(_, _, _, _, _)
drainThrowing(act, w, st, c, T) ==
    IF CanStart(act, w, c)
    THEN IF Shift(w).head \in T
         THEN [active |-> act + 1, waiting |-> Shift(w).rest,
               started |-> Append(st, Shift(w).head), thrown |-> Shift(w).head]
         ELSE drainThrowing(act + 1, Shift(w).rest, Append(st, Shift(w).head), c, T)
    ELSE [active |-> act, waiting |-> w, started |-> st, thrown |-> 0]

\* The states of the tasks after a drain: the task that threw, the tasks
\* whose promise is now in flight, the others.
AfterDrain(d, st) ==
    [u \in Tasks |-> IF u = d.thrown THEN "threw"
                     ELSE IF u \in StartedBy(d) THEN "running"
                     ELSE st[u]]

\* The process is gone: what it held is lost.
Lost(st) ==
    [u \in Tasks |-> IF st[u] \in {"waiting", "running", "settled"} THEN "lost" ELSE st[u]]
Alive == \A u \in Tasks : tstate[u] # "lost"

\* enqueue(task): new Promise((resolve, reject) => { waiting.push(..); drain(); }).
\* An exception thrown in the executor rejects the promise enqueue returns,
\* whichever task threw it.
enqueue_throwing(t, T) ==
    /\ Alive
    /\ t = offered + 1
    /\ t \in Tasks
    /\ LET d == drainThrowing(active, Append(waiting, t), started, concurrency, T)
       IN  /\ active' = d.active
           /\ waiting' = d.waiting
           /\ started' = d.started
           /\ tstate' = AfterDrain(d, [tstate EXCEPT ![t] = "waiting"])
           /\ result' = IF d.thrown # 0
                         THEN [result EXCEPT ![t] = [task |-> d.thrown, outcome |-> "fail"]]
                         ELSE result
    /\ offered' = t
    /\ depthAt' = [depthAt EXCEPT ![t] = Len(waiting)]
    /\ UNCHANGED <<concurrency, maxDepth, pinged, gvars>>

\* task().then(resolve).catch(reject): resolve and reject do nothing on a
\* promise that is settled already.
settle_once(t, outcome) ==
    /\ Alive
    /\ tstate[t] = "running"
    /\ tstate' = [tstate EXCEPT ![t] = "settled"]
    /\ result' = [result EXCEPT ![Caller(t)] =
                     IF @ = Unsettled THEN [task |-> t, outcome |-> outcome] ELSE @]
    /\ UNCHANGED <<concurrency, maxDepth, active, waiting, started, offered, depthAt,
                   pinged, gvars>>

\* .finally(() => { active--; drain(); }): an exception of drain() rejects
\* the promise .finally returned, which nobody holds; the process goes on.
release_throwing(t, T) ==
    /\ Alive
    /\ tstate[t] = "settled"
    /\ LET d == drainThrowing(active - Freed(t), waiting, started, concurrency, T)
       IN  /\ active' = d.active
           /\ waiting' = d.waiting
           /\ started' = d.started
           /\ tstate' = AfterDrain(d, [tstate EXCEPT ![t] = "released"])
    /\ UNCHANGED <<concurrency, maxDepth, result, offered, depthAt, pinged, gvars>>

\* The same, on a runtime that ends the process on an unhandled rejection
\* (node:20, the runtime of the image).
release_exit(t, T) ==
    /\ Alive
    /\ tstate[t] = "settled"
    /\ LET d == drainThrowing(active - Freed(t), waiting, started, concurrency, T)
       IN  /\ d.thrown # 0
           /\ started' = d.started
           /\ tstate' = Lost(AfterDrain(d, [tstate EXCEPT ![t] = "released"]))
    /\ active' = 0
    /\ waiting' = <<>>
    /\ UNCHANGED <<concurrency, maxDepth, result, offered, depthAt, pinged, gvars>>

ThrowNext ==
    \/ \E t \in Tasks, T \in SUBSET Tasks : enqueue_throwing(t, T)
    \/ \E t \in Tasks, o \in {"ok", "fail"} : settle_once(t, o)
    \/ \E t \in Tasks, T \in SUBSET Tasks : release_throwing(t, T)
    \/ \E t \in Tasks, T \in SUBSET Tasks : release_exit(t, T)

SpecThrow == Init /\ [][ThrowNext]_vars

(***************************************************************************)
(* Claims about the bootstrap and the publish.                             *)
(***************************************************************************)
Finished == {k \in Procs : rets[k].finished}
P == "proj-a"
FeatPair == <<featBranch("add-auth"), devBranch(P)>>
OpenFeatPulls == OpenPulls(FeatPair[1], FeatPair[2])

\* The write calls of the git data and contents APIs an invocation issued.
NoWrites(calls) ==
    /\ calls.refCreate = 0
    /\ calls.blob = 0
    /\ calls.tree = 0
    /\ calls.commit = 0
    /\ calls.put = 0

\* C6: in every reachable state, also with interleaved createFeatBranch
\* calls for the same project and featId, there is at most one open pull
\* request for (feat/{featId}, {project}-dev).
C6_AtMostOneOpenPull == Cardinality(OpenFeatPulls) <= 1

\* C7: createFeatBranch invoked twice in sequence with the same project and
\* feat_name: the second invocation succeeds, its branch creation is
\* answered 422 and absorbed (one creation in all), it writes each of its
\* files onto the existing branch (which holds them until a later publish
\* writes it again), issues no pull-request create call and returns the
\* first invocation's pr_number; one open pull request exists.
C7_SecondPublishReuses ==
    (serial /\ rets[1].finished /\ rets[2].finished) =>
        /\ rets[1].ok /\ rets[2].ok
        /\ created[FeatPair[1]] = 1
        /\ rets[2].calls.put >= Len(rets[2].files)
        /\ invoked = 2 =>
              \A k \in 1..Len(rets[2].files) :
                 TreeAt(rets[2].branch)[rets[2].files[k].path] = rets[2].files[k].content
        /\ rets[2].calls.prCreate = 0
        /\ rets[2].pr_number = rets[1].pr_number
        /\ Cardinality(OpenFeatPulls) = 1

\* C7 witness: two publishes, one after the other, have both returned.
C7_Witness ==
    /\ serial
    /\ rets[1].finished /\ rets[2].finished
    /\ rets[1].calls.prCreate = 1
    /\ rets[2].pr_number = 1

\* C8: ensureProject(p) invoked twice in sequence for a new p with an
\* unchanged bootstrap file set: the second call issues no ref-create, blob,
\* tree, commit or content-write call and returns the same branch names.
C8_SecondBootstrapWritesNothing ==
    (serial /\ initial = "fresh" /\ rets[1].finished /\ rets[2].finished) =>
        /\ rets[1].ok /\ rets[2].ok
        /\ NoWrites(rets[2].calls)
        /\ rets[2].masterBranch = rets[1].masterBranch
        /\ rets[2].devBranch = rets[1].devBranch

\* C8 witness: the first call bootstrapped the new project, the second has
\* returned after it.
C8_Witness ==
    /\ serial /\ initial = "fresh"
    /\ rets[1].finished /\ rets[2].finished
    /\ rets[1].calls.blob = Len(getBootstrapFiles(P))
    /\ rets[1].calls.refCreate = 2

\* C9: ensureProject(p) invoked concurrently for the same new p: every call
\* resolves successfully with the same branch names, a caller whose master
\* ref creation is answered 422 goes on (to the upsert), and exactly one
\* {p}-master and one {p}-dev are created.
C9_ConcurrentBootstrapResolves ==
    initial = "fresh" =>
        /\ \A k \in Finished :
              /\ rets[k].ok
              /\ rets[k].masterBranch = masterBranch(P)
              /\ rets[k].devBranch = devBranch(P)
        /\ created[masterBranch(P)] <= 1
        /\ created[devBranch(P)] <= 1
        /\ (Finished # {} /\ NoneBusy) =>
              /\ created[masterBranch(P)] = 1 /\ Exists(masterBranch(P))
              /\ created[devBranch(P)] = 1 /\ Exists(devBranch(P))

\* C9 witness: two calls each built a root commit, so one of them lost the
\* ref creation race, and both have resolved.
C9_Witness ==
    /\ initial = "fresh"
    /\ \E k, l \in Finished :
          /\ k # l
          /\ rets[k].ok /\ rets[l].ok
          /\ rets[k].calls.commit = 1 /\ rets[l].calls.commit = 1
          /\ rets[k].calls.refCreate >= 1 /\ rets[l].calls.refCreate >= 1

Bootstrapped ==
    /\ Exists(masterBranch(P))
    /\ Exists(devBranch(P))
    /\ \A k \in 1..Len(getBootstrapFiles(P)) :
          /\ getBootstrapFiles(P)[k].path \in DOMAIN TreeAt(masterBranch(P))
          /\ TreeAt(masterBranch(P))[getBootstrapFiles(P)[k].path]
                = getBootstrapFiles(P)[k].content

Crashed == {k \in Procs : proc[k].pc = "crashed"}

\* C11: when a run of ensureProject(p) has stopped after any of its remote
\* steps, a later run (started after the stop, not overlapping any other
\* run, and not stopping itself) terminates successfully in a state where
\* {p}-master and {p}-dev exist and {p}-master carries the current bootstrap
\* file set.
C11_RecoveryConverges ==
    \A j \in 1..ProjectCallers :
        (serial /\ Busy(j) /\ Crashed # {})
            ~> (\/ ~serial
                \/ j \in Crashed
                \/ (rets[j].finished /\ rets[j].ok /\ Bootstrapped))

\* C11 witness: the first run stopped after creating {p}-master from scratch
\* (the dev branch is created by the second run, which writes nothing else).
C11_Witness ==
    /\ serial /\ initial = "fresh"
    /\ 1 \in Crashed
    /\ rets[2].finished /\ rets[2].ok
    /\ rets[2].calls.refCreate = 1
    /\ rets[2].calls.blob = 0 /\ rets[2].calls.put = 0
    /\ Bootstrapped

\* What a first publish of "add-auth" does when it is the only run in
\* progress: it succeeds, creates feat/add-auth (its only ref creation),
\* issues one content write per file of its list, each on feat/add-auth,
\* and creates the one pull request, from feat/add-auth into {project}-dev.
FirstPublishDone ==
    /\ rets[1].ok
    /\ rets[1].branch = "feat/add-auth"
    /\ created["feat/add-auth"] = 1
    /\ rets[1].calls.refCreate = 1
    /\ rets[1].calls.put = Len(rets[1].files)
    /\ rets[1].calls.writes =
          [k \in 1..Len(rets[1].files) |-> <<"feat/add-auth", rets[1].files[k].path>>]
    /\ rets[1].calls.prCreate = 1
    /\ Len(prs) = 1
    /\ rets[1].pr_number = 1
    /\ prs[1].head = "feat/add-auth" /\ prs[1].base = "proj-a-dev" /\ prs[1].open

\* C12 as stated: a first publish with feat_name "add-auth" and n = 2 files
\* onto a bootstrapped project (whatever template it was bootstrapped from)
\* creates feat/add-auth, issues exactly n content writes, all on that
\* branch and one per file, and ends with a single pull request into
\* {project}-dev.
C12_FirstPublishAsStated ==
    (serial /\ initial \in {"old-template", "bootstrapped"} /\ rets[1].finished)
        => FirstPublishDone

\* C12: the same, for a project whose bootstrap files on {project}-master
\* are those of the current template.
C12_FirstPublish ==
    (serial /\ initial = "bootstrapped" /\ rets[1].finished) => FirstPublishDone

\* C12 witness: the publish of two files has returned.
C12_Witness ==
    /\ serial /\ initial = "bootstrapped"
    /\ rets[1].finished /\ rets[1].ok
    /\ Len(rets[1].files) = 2
    /\ Len(rets[1].calls.writes) = 2
    /\ OpenFeatPulls = {1}

\* The content writes invocation k issued on branch b for a path.
WritesOf(k, b, path) ==
    {n \in 1..Len(rets[k].calls.writes) : rets[k].calls.writes[n] = <<b, path>>}

\* The second publish pushes the first one's directory with exactly one
\* file changed.
OneFileChanged ==
    /\ Len(rets[1].files) = Len(rets[2].files)
    /\ \A k \in 1..Len(rets[1].files) : rets[1].files[k].path = rets[2].files[k].path
    /\ Cardinality({k \in 1..Len(rets[1].files) :
                       rets[1].files[k].content # rets[2].files[k].content}) = 1

\* C13: a republish with the same feat_name in which one file's content
\* changed and the others did not issues one content write for the changed
\* file and none for an unchanged one, and returns the pull-request number
\* returned before.
C13_RepublishWritesChangedOnly ==
    (serial /\ rets[1].finished /\ rets[2].finished /\ rets[1].ok /\ OneFileChanged) =>
        /\ rets[2].ok
        /\ \A k \in 1..Len(rets[2].files) :
              Cardinality(WritesOf(2, rets[2].branch, rets[2].files[k].path))
                = IF rets[2].files[k].content # rets[1].files[k].content THEN 1 ELSE 0
        /\ rets[2].pr_number = rets[1].pr_number

(***************************************************************************)
(* Further claims about the queue.                                         *)
(***************************************************************************)
Rejected == {t \in Tasks : tstate[t] = "rejected"}

FailureOf(t) ==
    /\ tstate[t] = "running"
    /\ tstate'[t] = "settled"
    /\ result'[t].outcome = "fail"

\* A step in which the slot of settled task t is released.
ReleaseOf(t) == tstate[t] = "settled" /\ tstate'[t] = "released"

\* C15: the failure of a running task is delivered to its own caller and
\* changes nothing for any other task, running or waiting; its slot is
\* released as after a success (`active' again counts the tasks that hold a
\* slot), no other task is rejected or aborted by the release, and when
\* tasks wait the first of them is started.
C15_FailureIsolated ==
    [][\A t \in Tasks :
          /\ FailureOf(t) =>
                /\ result'[t].task = t
                /\ \A u \in Tasks \ {t} : tstate'[u] = tstate[u] /\ result'[u] = result[u]
                /\ waiting' = waiting
          /\ ReleaseOf(t) =>
                /\ active' = Cardinality({u \in Tasks : tstate'[u] \in {"running", "settled"}})
                /\ result' = result
                /\ \A u \in Tasks \ {t} :
                      \/ tstate'[u] = tstate[u]
                      \/ tstate[u] = "waiting" /\ tstate'[u] = "running"
                /\ Len(waiting) > 0 =>
                      /\ tstate'[Head(waiting)] = "running"
                      /\ waiting' = Tail(waiting)]_vars

\* C15 witness: with one slot, the first task failed and was released, the
\* task that waited behind it runs and another still waits.
C15_Witness ==
    /\ concurrency = 1
    /\ result[1].outcome = "fail" /\ tstate[1] = "released"
    /\ tstate[2] = "running"
    /\ tstate[3] = "waiting"

\* C16: the promise of each enqueue call settles with the outcome of its
\* own task, never another task's, and only once that task has settled;
\* and when every task offered has settled and its release callback has
\* run, stats() reports active = 0 and queued = 0.
C16_OwnResultThenIdle ==
    /\ \A t \in Tasks :
          /\ result[t] # Unsettled => result[t].task = t
          /\ result[t] # Unsettled <=> tstate[t] \in {"settled", "released"}
    /\ (offered > 0 /\ \A t \in 1..offered : tstate[t] = "released") =>
          stats.active = 0 /\ stats.queued = 0

\* C16 witness: three tasks, one of which waited and one of which failed,
\* have all completed and been released.
C16_Witness ==
    /\ offered = 3
    /\ \A t \in 1..3 : tstate[t] = "released"
    /\ depthAt[3] > 0
    /\ result[1].outcome = "ok" /\ result[2].outcome = "fail"
    /\ stats.active = 0

\* C17: validation failures happen before any remote call.  An invocation
\* in progress was given a well-formed project name and, for
\* createFeatBranch, a dir and a non-empty file list; an invocation that
\* ended with a validation failure failed without a status from the host
\* and issued no request of any kind (requests are the only way an
\* invocation changes the remote state).
C17_ValidationBeforeRemote ==
    \A k \in Procs :
        /\ Busy(k) =>
              /\ proc[k].project = "proj-a"
              /\ proc[k].top = "createFeatBranch" =>
                    proc[k].dir # "" /\ proc[k].files # <<>>
        /\ rets[k].error \in ValidationErrors =>
              /\ ~rets[k].ok
              /\ rets[k].status = 0
              /\ rets[k].calls = NoCalls

\* C17 witness: on a repository with only the default branch, a publish for
\* a malformed project name and a bootstrap for an empty one have both
\* failed, and no branch of any project exists.
C17_Witness ==
    /\ initial = "fresh"
    /\ rets[1].op = "createFeatBranch" /\ rets[1].error = "Invalid project name"
    /\ rets[2].op = "ensureProject" /\ rets[2].error = "Invalid project name"
    /\ ~Exists(masterBranch(P))
    /\ blobs = {}

\* C18: a failure of the label request never fails the publish: an
\* invocation that created its pull request and issued the label request,
\* whether that request succeeded or failed with whatever status, resolved
\* successfully and returned the pull request it created.
C18_LabelFailureNotFatal ==
    \A k \in Procs :
        (rets[k].finished /\ rets[k].calls.label = 1) =>
            /\ rets[k].ok
            /\ rets[k].calls.prCreate = 1
            /\ rets[k].pr_number \in 1..Len(prs)
            /\ prs[rets[k].pr_number].head = rets[k].branch
            /\ prs[rets[k].pr_number].base = rets[k].devBranch

\* C18 witness: a publish has returned the pull request it created, which
\* has no label because the label request failed.
C18_Witness ==
    \E k \in Procs :
        /\ rets[k].finished /\ rets[k].ok
        /\ rets[k].calls.label = 1
        /\ rets[k].pr_number \in 1..Len(prs)
        /\ prs[rets[k].pr_number].labels = {}

\* C19: a failure of a hosting-API call other than a 404 of an existence
\* read, a 422 of a ref creation and a failure of the label request makes
\* the operation fail; in particular, an invocation one of whose
\* file-content reads (bootstrap upsert or feature file push) failed with a
\* status other than 404 does not finish successfully.
C19_ReadFailurePropagates ==
    \A k \in Finished : rets[k].calls.readFailed > 0 => ~rets[k].ok

\* C20: every admitted task eventually settles and releases its slot, also
\* when a request of a running task is never answered (the request is
\* bounded by a timeout and fails), so that no waiting task is blocked for
\* ever.
C20_AdmittedTaskSettles ==
    \A t \in Tasks :
        (tstate[t] \in {"waiting", "running"}) ~> (tstate[t] = "released")

(***************************************************************************)
(* server.js: the status each endpoint answers with.                       *)
(***************************************************************************)
\* POST /push, for a body that passed the handler's checks:
\* res.status(202).json(..) is sent before enqueue is called, and the
\* .catch on the returned promise only logs.  0 while no request was made.
push(t) == IF tstate[t] = "new" THEN 0 ELSE 202

\* POST /push/sync, for a body that passed the handler's checks:
\* res.json(result) when the awaited enqueue promise resolves,
\* res.status(500) when it rejects.  0 while it is pending.
pushSync(outcome) ==
    CASE outcome = "ok" -> 200
      [] outcome = "fail" -> 500
      [] OTHER -> 0

\* The requests made while the queue was full: waiting.length had reached
\* PUSH_QUEUE_MAX_DEPTH when the handler ran.
OfferedWhenFull == {t \in 1..offered : depthAt[t] >= maxDepth}

\* C21: a POST /push or POST /push/sync made while the queue is full
\* (waiting depth >= PUSH_QUEUE_MAX_DEPTH) is answered 503 and nothing else.
C21_FullQueueAnswers503 ==
    \A t \in OfferedWhenFull :
        /\ push(t) = 503
        /\ result[t] # Unsettled => pushSync(result[t].outcome) = 503

\* C22: stats() returns the current active count as active, the current
\* length of the waiting list as queued and the configured limit as
\* concurrency, and the call changes neither the active count nor the
\* waiting list and starts no task.
C22_StatsReadsOnly ==
    [][pinged'.n # pinged.n =>
          /\ pinged'.queue.active = active
          /\ pinged'.queue.queued = Len(waiting)
          /\ pinged'.queue.concurrency = concurrency
          /\ UNCHANGED <<active, waiting, started, tstate, concurrency>>]_vars

C22_Witness ==
    /\ pinged.n > 0
    /\ pinged.queue.active > 0
    /\ pinged.queue.queued > 0
    /\ pinged.queue = stats

(***************************************************************************)
(* Further claims about the bootstrap and the publish.                     *)
(***************************************************************************)
\* The content writes invocation i has issued so far, accepted or refused.
WritesSoFar(i) == IF rets[i].finished THEN rets[i].calls.writes ELSE proc[i].calls.writes

BootstrapPaths == {getBootstrapFiles(P)[k].path : k \in 1..Len(getBootstrapFiles(P))}

\* C23: no bootstrap or publish issues a mutating call on the default
\* branch main: main keeps its commit and is never the target of a ref
\* creation; a content write of a bootstrap file targets {project}-master
\* and every other content write targets feat/{featId}; refs are created
\* only for {project}-master, {project}-dev and feat/{featId}.
C23_MainNeverWritten ==
    /\ refs["main"] = Commit(<<0, 1>>, MainTree, <<>>)
    /\ created["main"] = 0
    /\ \A b \in Branches :
           created[b] > 0 => b \in {masterBranch(P), devBranch(P), featBranch("add-auth")}
    /\ \A i \in Procs : \A n \in 1..Len(WritesSoFar(i)) :
           LET w == WritesSoFar(i)[n]
           IN  /\ w[1] # "main"
               /\ w[1] = IF w[2] \in BootstrapPaths THEN masterBranch(P)
                         ELSE featBranch("add-auth")

C23_Witness ==
    /\ initial = "fresh"
    /\ rets[1].finished /\ rets[1].ok
    /\ created[masterBranch(P)] = 1 /\ created[devBranch(P)] = 1
    /\ created[featBranch("add-auth")] = 1
    /\ Len(rets[1].calls.writes) = 2
    /\ rets[1].op = "createFeatBranch"
    /\ refs["main"].tree = MainTree

\* The requests invocation i has issued so far.
CallsSoFar(i) == IF rets[i].finished THEN rets[i].calls ELSE proc[i].calls

\* C24: in ensureBranch every failure other than a 404 of the read of
\* branch's ref and a 422 of the creation propagates: a read of branch's
\* ref that fails otherwise fails the call with no create attempt, so does
\* a failed read of sourceBranch's ref (404 included), and a creation that
\* fails with a status other than 422 fails the call.
C24_EnsureBranchPropagates ==
    \A i \in Procs :
        CallsSoFar(i).failed # "none" =>
            /\ rets[i].finished /\ ~rets[i].ok
            /\ CallsSoFar(i).failed = "getRef" =>
                   rets[i].status \in RefFailures /\ rets[i].calls.refCreate = 0
            /\ CallsSoFar(i).failed = "getSource" =>
                   /\ rets[i].status \in RefFailures \cup {404}
                   /\ rets[i].calls.refCreate = 0
            /\ CallsSoFar(i).failed = "createRef" =>
                   rets[i].status \in RefFailures /\ rets[i].calls.refCreate = 1

C24_Witness ==
    /\ rets[1].finished /\ rets[1].calls.failed = "getRef"
    /\ rets[2].finished /\ rets[2].calls.failed = "getSource"
    /\ rets[3].finished /\ rets[3].calls.failed = "createRef"
    /\ created[devBranch(P)] = 0

\* The error messages that contain 'Invalid project'.
InvalidProjectMessages == {"Invalid project name"}

\* POST /projects/:project/bootstrap: res.json(..) or, in the catch,
\* res.status(err.message.includes('Invalid project') ? 400 : 500).
bootstrap(ret) ==
    IF ret.ok THEN 200
    ELSE IF ret.error \in InvalidProjectMessages THEN 400
    ELSE 500

\* POST /push/sync for the arguments of an invocation: the handler answers
\* 400 itself for a missing project or dir, and otherwise awaits the task.
pushSyncOf(ret) ==
    IF ret.error \in {"project is required", "dir is required"} THEN 400
    ELSE pushSync(IF ret.ok THEN "ok" ELSE "fail")

\* C25: an invalid project name is answered with status 400, never 500, by
\* POST /projects/:project/bootstrap and by POST /push/sync.
C25_InvalidProjectIs400 ==
    \A k \in Finished :
        rets[k].error = "Invalid project name" =>
            /\ rets[k].op = "ensureProject" => bootstrap(rets[k]) = 400
            /\ rets[k].op = "createFeatBranch" => pushSyncOf(rets[k]) = 400

(***************************************************************************)
(* Further claims about the queue.                                         *)
(***************************************************************************)
\* C26: when a task completes (success or failure) while tasks wait, the
\* head of the waiting list is started in the step that releases the slot;
\* and at every point between two steps, a non-empty waiting list implies
\* active = concurrency: no slot stays idle while work waits.
C26_NoIdleSlotWhileWaiting ==
    [][/\ Len(waiting) > 0 => active = concurrency
       /\ Len(waiting') > 0 => active' = concurrency
       /\ \A t \in Tasks :
             (ReleaseOf(t) /\ Len(waiting) > 0) =>
                 /\ tstate'[Head(waiting)] = "running"
                 /\ waiting' = Tail(waiting)
                 /\ started' = Append(started, Head(waiting))
                 /\ active' = active]_vars

\* C26 witness: a task that failed and one that succeeded have both been
\* released while tasks waited, and a task still waits with every slot taken.
C26_Witness ==
    /\ \E t, u \in Tasks :
          /\ tstate[t] = "released" /\ result[t].outcome = "fail"
          /\ tstate[u] = "released" /\ result[u].outcome = "ok"
          /\ depthAt[NumTasks] > 0
    /\ Len(waiting) > 0
    /\ active = concurrency

(***************************************************************************)
(* Claims about the requests of the upsert pass and of the file push.      *)
(***************************************************************************)
\* The requests invocation i has issued after the step.
CallsAfter(i) == IF rets'[i].finished THEN rets'[i].calls ELSE proc'[i].calls

\* The file at path on branch b has the given content, byte for byte.
SameBytes(b, path, content) ==
    /\ Exists(b)
    /\ path \in DOMAIN TreeAt(b)
    /\ Bytes[TreeAt(b)[path]] = Bytes[content]

\* The hash of the file at path on branch b, <<>> when there is none.
ShaOnBranch(b, path) ==
    IF Exists(b) /\ path \in DOMAIN TreeAt(b) THEN BlobSha(TreeAt(b)[path]) ELSE <<>>

\* C27: in the upsert pass on an existing {project}-master, for each
\* bootstrap file: when the file is there with byte-identical content the
\* read is followed by no write; otherwise by exactly one content write,
\* which carries the hash the read returned when the file existed, so that
\* it is accepted when the file is as it was read and is refused, leaving
\* the branch as it is and failing the call, when the file changed since.
C27_UpsertWritesWithReadHash ==
    [][\A i \in Procs :
          LET b == masterBranch(P)
              file == getBootstrapFiles(P)[proc[i].idx]
          IN  /\ (proc[i].pc = "up_get" /\ proc'[i] # proc[i]) =>
                    /\ UNCHANGED <<refs, rets>>
                    /\ proc'[i].calls = proc[i].calls
                    /\ IF SameBytes(b, file.path, file.content)
                       THEN proc'[i].pc # "up_put"
                       ELSE /\ proc'[i].pc = "up_put"
                            /\ proc'[i].idx = proc[i].idx
                            /\ proc'[i].exSha = ShaOnBranch(b, file.path)
              /\ (proc[i].pc = "up_put" /\ proc'[i] # proc[i]) =>
                    /\ CallsAfter(i).put = proc[i].calls.put + 1
                    /\ CallsAfter(i).writes =
                          Append(proc[i].calls.writes, <<b, file.path>>)
                    /\ IF ShaOnBranch(b, file.path) = proc[i].exSha
                       THEN /\ refs'[b].tree = (file.path :> file.content) @@ TreeAt(b)
                            /\ ~rets'[i].finished
                            /\ proc'[i].pc # "up_put"
                       ELSE /\ refs' = refs
                            /\ rets'[i].finished /\ ~rets'[i].ok]_vars

\* C27 witness: on a project bootstrapped from an older template two passes
\* read the outdated file; one has written it with the hash it read, the
\* other's write, carrying the same hash, was refused, and the branch holds
\* the current file set.
C27_Witness ==
    /\ initial = "old-template"
    /\ \E k, l \in Finished :
          /\ rets[k].ok /\ rets[k].calls.put = 1
          /\ ~rets[l].ok /\ rets[l].status = 409 /\ rets[l].calls.put = 1
    /\ TreeAt(masterBranch(P)) = BootstrapTree

\* The content writes invocation i has issued on the feature branch, and
\* the file list it pushes.
FeatWrites(i) == SelectSeq(WritesSoFar(i), LAMBDA w : w[1] = featBranch("add-auth"))
FilesOf(i) == IF rets[i].finished THEN rets[i].files ELSE proc[i].files

\* C28: within one createFeatBranch invocation the files are pushed one
\* after the other in file-list order.  The invocation is at one request at
\* a time; the read for file idx is issued when exactly the writes for the
\* files before it have been issued and accepted; the read is followed by
\* the write of the same file, carrying the hash that read returned (none
\* when the file was absent), so that it is accepted when the file is as it
\* was read; an accepted write is followed by the read of the next file or,
\* after the last, by the pull-request query, and a refused one fails the
\* invocation.
C28_FilePushSequential ==
    [][\A i \in Procs :
          LET b == featBranch("add-auth")
              file == proc[i].files[proc[i].idx]
          IN  /\ Len(FeatWrites(i)) <= Len(FilesOf(i))
              /\ \A k \in 1..Len(FeatWrites(i)) : FeatWrites(i)[k][2] = FilesOf(i)[k].path
              /\ proc[i].pc \in {"cf_get", "cf_put"} =>
                    Len(FeatWrites(i)) = proc[i].idx - 1
              /\ (proc[i].pc = "cf_get" /\ proc'[i] # proc[i]) =>
                    /\ UNCHANGED <<refs, rets>>
                    /\ proc'[i].calls = proc[i].calls
                    /\ proc'[i].pc = "cf_put"
                    /\ proc'[i].idx = proc[i].idx
                    /\ proc'[i].exSha = ShaOnBranch(b, file.path)
              /\ (proc[i].pc = "cf_put" /\ proc'[i] # proc[i]) =>
                    /\ CallsAfter(i).put = proc[i].calls.put + 1
                    /\ CallsAfter(i).writes =
                          Append(proc[i].calls.writes, <<b, file.path>>)
                    /\ IF ShaOnBranch(b, file.path) = proc[i].exSha
                       THEN /\ refs'[b].tree = (file.path :> file.content) @@ TreeAt(b)
                            /\ ~rets'[i].finished
                            /\ IF proc[i].idx < Len(proc[i].files)
                               THEN /\ proc'[i].pc = "cf_get"
                                    /\ proc'[i].idx = proc[i].idx + 1
                               ELSE proc'[i].pc = "cf_listPRs"
                       ELSE /\ refs' = refs
                            /\ rets'[i].finished /\ ~rets'[i].ok]_vars

\* C28 witness: two publishes of the same feature ran together; one pushed
\* both files, a.js before b.js, and the other, whose read was outdated when
\* it wrote, was refused after it had written one file.
C28_Witness ==
    \E k, l \in Finished :
        /\ rets[k].ok
        /\ FeatWrites(k) = << <<featBranch("add-auth"), "a.js">>,
                              <<featBranch("add-auth"), "b.js">> >>
        /\ ~rets[l].ok /\ rets[l].status \in {409, 422}
        /\ Len(FeatWrites(l)) = 2

\* The positions of an invocation before its feature branch is there, and
\* those after its files are pushed.
BeforeBranch ==
    {"ob_getRef", "ob_blobs", "ob_tree", "ob_commit", "ob_createRef", "up_get", "up_put",
     "eb_getRef", "eb_getSource", "eb_createRef", "cf_getDevRef", "cf_createRef"}
AfterFiles == {"cf_listPRs", "cf_createPR", "cf_labels"}

\* Invocation i has written every file of its list on the feature branch.
AllPushed(i) ==
    FeatWrites(i) = [k \in 1..Len(FilesOf(i)) |-> <<featBranch("add-auth"), FilesOf(i)[k].path>>]

\* C29: a publish advances only along absent, created, files-pushed,
\* PR-open.  Until ensureProject has completed and the feature branch has
\* been created (or its conflict absorbed) the invocation writes no file
\* and issues no pull-request call; it creates the branch with
\* {project}-master and {project}-dev in place; it writes files on an
\* existing feature branch only; it queries and creates the pull request
\* only when every file write has succeeded; and an invocation that fails
\* has created no pull request.
C29_PublishPhases ==
    [][\A i \in Procs :
          /\ proc[i].pc \in BeforeBranch =>
                /\ FeatWrites(i) = <<>>
                /\ proc[i].calls.prCreate = 0 /\ proc[i].pr = 0
          /\ proc[i].pc \in {"cf_get", "cf_put"} =>
                /\ Exists(featBranch("add-auth"))
                /\ proc[i].calls.prCreate = 0 /\ proc[i].pr = 0
          /\ (proc[i].pc \in AfterFiles \/ (rets[i].finished /\ rets[i].ok
                                             /\ rets[i].op = "createFeatBranch")) =>
                AllPushed(i)
          /\ (proc'[i] # proc[i] /\ created' # created /\ proc[i].pc = "cf_createRef") =>
                /\ Exists(masterBranch(P)) /\ Exists(devBranch(P))
                /\ created'[featBranch("add-auth")] = created[featBranch("add-auth")] + 1
          /\ (proc'[i] # proc[i] /\ created'[featBranch("add-auth")]
                                      # created[featBranch("add-auth")]) =>
                proc[i].pc = "cf_createRef"
          /\ (proc'[i] # proc[i] /\ prs' # prs /\ Len(prs') > Len(prs)) =>
                proc[i].pc = "cf_createPR" /\ AllPushed(i)
          /\ (~rets[i].finished /\ rets'[i].finished /\ ~rets'[i].ok) =>
                /\ Len(prs') = Len(prs)
                /\ proc[i].pr = 0]_vars

\* C29 witness: on a new project one publish went through every phase and
\* its pull request is open, and another failed in the file push and has
\* issued no pull-request call.
C29_Witness ==
    /\ initial = "fresh"
    /\ Len(prs) = 1
    /\ \E k, l \in Finished :
          /\ rets[k].ok /\ rets[k].pr_number = 1 /\ rets[k].calls.prCreate = 1
          /\ ~rets[l].ok /\ rets[l].op = "createFeatBranch"
          /\ Len(FeatWrites(l)) > 0 /\ rets[l].calls.prCreate = 0

\* C30: when the creation of feat/{featId} is answered 422 (the branch
\* exists) the publish goes on to push its files onto the existing branch;
\* when it fails with any other status the publish fails with that status
\* and has issued no file write and no pull-request call.
C30_FeatRefFailure ==
    [][\A i \in Procs :
          /\ CallsSoFar(i).failed = "featRef" =>
                /\ rets[i].finished /\ ~rets[i].ok
                /\ rets[i].status \in RefFailures
                /\ FeatWrites(i) = <<>>
                /\ rets[i].calls.prCreate = 0 /\ rets[i].pr_number = 0
          /\ (/\ proc[i].pc = "cf_createRef" /\ proc'[i] # proc[i]
              /\ Exists(featBranch("add-auth"))
              /\ CallsAfter(i).failed = "none") =>
                /\ UNCHANGED <<refs, created, rets>>
                /\ proc'[i].pc = "cf_get" /\ proc'[i].idx = 1
                /\ proc'[i].calls.refCreate = proc[i].calls.refCreate + 1
          /\ (rets[i].finished /\ rets[i].ok /\ rets[i].op = "createFeatBranch") =>
                AllPushed(i)]_vars

\* C30 witness: of two publishes of the same feature on a bootstrapped
\* project, one created the branch, pushed its files and returned; the
\* creation of the other was refused with 403 or 500, and it failed without
\* a file write or a pull-request call.
C30_Witness ==
    /\ initial = "bootstrapped"
    /\ created[featBranch("add-auth")] = 1
    /\ \E k, l \in Finished :
          /\ rets[k].ok /\ rets[k].calls.refCreate = 1 /\ AllPushed(k)
          /\ ~rets[l].ok /\ rets[l].calls.failed = "featRef"
          /\ rets[l].calls.put = 0 /\ rets[l].calls.prCreate = 0

(***************************************************************************)
(* Claims about the feature identifier.                                    *)
(***************************************************************************)
\* The characters of [a-z0-9._-] and of [A-Z] that occur in the names
\* supplied, and the lower-case form of the latter.
SafeChars == {"a", "d", "u", "t", "h", "0", ".", "_", "-"}
LowerOf(c) == CASE c = "A" -> "a" [] c = "D" -> "d" [] OTHER -> c

\* The name with every character outside [a-zA-Z0-9._-] removed, lowercased.
Stripped(name) ==
    LET kept == SelectSeq(name, LAMBDA c : LowerOf(c) \in SafeChars)
    IN  [k \in 1..Len(kept) |-> LowerOf(kept[k])]

\* The name with every character outside [a-zA-Z0-9._-] replaced by "-",
\* lowercased.
Replaced(name) ==
    [k \in 1..Len(name) |-> IF LowerOf(name[k]) \in SafeChars THEN LowerOf(name[k]) ELSE "-"]

\* The publishes started so far, and the name and the branch of each.
Publishes == {i \in 1..invoked : proc[i].top = "createFeatBranch"
                                    \/ rets[i].op = "createFeatBranch"}
NameOf(i) == IF rets[i].finished THEN rets[i].feat_name ELSE proc[i].feat_name
BranchOf(i) == IF rets[i].finished THEN rets[i].branch ELSE featBranch(proc[i].featId)

\* What C31 says of publishes whose names give the same featId, and of
\* publishes without a name.
SameIdSamePull ==
    \A i, j \in Publishes :
        /\ (/\ NameOf(i) # <<>> /\ NameOf(j) # <<>> /\ BranchOf(i) = BranchOf(j)
            /\ serial /\ rets[i].finished /\ rets[j].finished) =>
                  /\ rets[i].ok /\ rets[j].ok
                  /\ rets[i].pr_number = rets[j].pr_number
        /\ (i # j /\ NameOf(i) = <<>>) => BranchOf(i) # BranchOf(j)

InEnsureBranch == {i \in Procs : proc[i].pc \in {"eb_getRef", "eb_getSource", "eb_createRef"}}

\* C32: whatever the interleaving of the ensureProject runs and wherever a
\* run stops, {p}-dev exists only if {p}-master exists; a run reaches
\* ensureBranch only when {p}-master exists, and the step that creates
\* {p}-dev gives it the commit of {p}-master.
C32_DevImpliesMaster ==
    /\ [](Exists(devBranch(P)) => Exists(masterBranch(P)))
    /\ [](InEnsureBranch # {} => Exists(masterBranch(P)))
    /\ [][(~Exists(devBranch(P)) /\ Exists(devBranch(P))') =>
             /\ Exists(masterBranch(P))
             /\ refs'[devBranch(P)] = refs[masterBranch(P)]
             /\ refs'[masterBranch(P)] = refs[masterBranch(P)]]_vars

\* C32 witness: one run stopped after creating {p}-master and before
\* creating {p}-dev, and a later run created {p}-dev.
C32_Witness ==
    /\ initial = "fresh"
    /\ Crashed # {}
    /\ created[masterBranch(P)] = 1 /\ created[devBranch(P)] = 1
    /\ \E k \in Finished : rets[k].ok /\ rets[k].calls.refCreate = 1 /\ rets[k].calls.commit = 0

\* C33: on a repository without {p}-master, the ref appears only in the
\* step of a run that has posted every blob, the tree and the root commit,
\* and it then points at a root commit whose tree is in the host's store,
\* holds every bootstrap file with its content (each a stored blob) and
\* nothing else; while no run has made that step, whichever runs stopped
\* before it, there is no {p}-master ref.
C33_MasterNeverHalfPopulated ==
    /\ [](initial = "fresh" /\ Exists(masterBranch(P)) =>
            /\ created[masterBranch(P)] = 1
            /\ refs[masterBranch(P)].tree = BootstrapTree
            /\ refs[masterBranch(P)].tree \in trees
            /\ refs[masterBranch(P)].parents = <<>>
            /\ \A k \in 1..Len(getBootstrapFiles(P)) :
                  BlobSha(getBootstrapFiles(P)[k].content) \in blobs)
    /\ [](initial = "fresh" /\ created[masterBranch(P)] = 0 => ~Exists(masterBranch(P)))
    /\ [][(~Exists(masterBranch(P)) /\ Exists(masterBranch(P))') =>
             \E i \in Procs :
                 /\ proc[i].pc = "ob_createRef" /\ proc'[i].pc = "eb_getRef"
                 /\ proc[i].calls.blob = Len(getBootstrapFiles(P))
                 /\ proc[i].calls.tree = 1 /\ proc[i].calls.commit = 1
                 /\ proc[i].calls.refCreate = 0
                 /\ refs'[masterBranch(P)] = proc[i].sha]_vars

\* C33 witness: the first run stopped before the request that creates the
\* ref and left no {p}-master (the second run, started afterwards, did not
\* find one); the second run posted blobs, tree and commit and created it.
C33_Witness ==
    /\ initial = "fresh"
    /\ serial
    /\ 1 \in Crashed
    /\ blobs # {} /\ trees # {}
    /\ proc[2].pc = "eb_getRef" /\ proc[2].calls.commit = 1
    /\ Exists(masterBranch(P))

\* The commit {p}-master and {p}-dev point at on a project bootstrapped
\* from the older template.
OldHead == Commit(<<0, 2>>, OldBootstrapTree, <<>>)

\* C34: the step of ensureBranch that finds the branch changes no ref and
\* issues no request that writes (the run's call counts stay as they were);
\* once {p}-dev exists, no step of a bootstrap changes the commit it points
\* at; on a project bootstrapped from the older template, {p}-dev points at
\* the older commit throughout, also after a run has written the changed
\* template files onto {p}-master.
C34_EnsureBranchKeepsRef ==
    /\ [][\A i \in 1..ProjectCallers :
             (proc[i].pc = "eb_getRef" /\ Exists(devBranch(P)) /\ proc'[i] # proc[i]) =>
                 /\ refs' = refs
                 /\ CallsAfter(i) = proc[i].calls]_vars
    /\ [][Exists(devBranch(P)) => refs'[devBranch(P)] = refs[devBranch(P)]]_vars
    /\ [](initial = "old-template" => refs[devBranch(P)] = OldHead)

\* C34 witness: on a project bootstrapped from the older template a run has
\* written the changed file onto {p}-master, found {p}-dev and returned;
\* {p}-master carries the current file set and {p}-dev the older commit.
C34_Witness ==
    /\ initial = "old-template"
    /\ \E k \in Finished : rets[k].ok /\ rets[k].calls.put = 1 /\ rets[k].calls.refCreate = 0
    /\ TreeAt(masterBranch(P)) = BootstrapTree
    /\ refs[masterBranch(P)] # OldHead
    /\ refs[devBranch(P)] = OldHead

\* The positions of task t in the order of invocation.
InvocationsOf(t) == {k \in 1..Len(started) : started[k] = t}

\* C35: a task that is waiting or was never offered has not been invoked,
\* and a task that left the waiting list has been invoked exactly once; the
\* promise of its caller is unsettled until the task's own promise settles,
\* carries that task's outcome afterwards and never changes again; active
\* is a natural number and equals the number of tasks that were started
\* and whose release callback has not run.
C35_OnceInvokedOnceSettled ==
    /\ [](\A t \in Tasks :
            /\ tstate[t] \in {"new", "waiting"} => InvocationsOf(t) = {}
            /\ tstate[t] \in {"running", "settled", "released"} =>
                  Cardinality(InvocationsOf(t)) = 1
            /\ tstate[t] \in {"new", "waiting", "running"} <=> result[t] = Unsettled
            /\ result[t] # Unsettled => result[t].task = t)
    /\ [][\A t \in Tasks : result[t] # Unsettled => result'[t] = result[t]]_vars
    /\ [](active \in Nat /\ active = Cardinality(Unreleased))

\* C35 witness: every task was admitted, invoked and released, one of them
\* after failing, one after waiting for a slot; no slot is in use.
C35_Witness ==
    /\ \A t \in Tasks : tstate[t] = "released" /\ result[t].task = t
    /\ \E t \in Tasks : result[t].outcome = "fail"
    /\ \E t \in Tasks : depthAt[t] > 0 \/ started[t] # t
    /\ Len(started) = NumTasks
    /\ active = 0

\* The tasks whose function threw when it was invoked.
Threw == {t \in Tasks : tstate[t] = "threw"}

\* C36: a task whose function throws when it is invoked is handled like a
\* task whose promise rejects: its error is delivered to the caller that
\* enqueued it and to nobody else, its slot is given back (active counts
\* the tasks in progress only), no task is lost, and no task waits while a
\* slot is free.
C36_SyncThrowHandled ==
    /\ \A t \in Threw : result[t] = [task |-> t, outcome |-> "fail"]
    /\ \A t \in Tasks : result[t].task \in {0, t}
    /\ active = Cardinality(Unreleased)
    /\ Alive
    /\ Len(waiting) > 0 => active >= concurrency

\* C37: the step in which the promise of a task's caller settles changes
\* neither active nor the waiting list nor the order of invocation, and
\* leaves the task among those whose slot is counted; the step in which the
\* slot of a task is given back finds that promise settled.
C37_ResultBeforeRelease ==
    [][\A t \in Tasks :
          /\ (result[t] = Unsettled /\ result'[t] # Unsettled) =>
                /\ active' = active
                /\ active' >= 1
                /\ waiting' = waiting
                /\ started' = started
                /\ tstate'[t] = "settled"
          /\ (tstate[t] # "released" /\ tstate'[t] = "released") =>
                /\ result[t] # Unsettled
                /\ result'[t] = result[t]
                /\ tstate[t] = "settled"]_vars

\* C37 witness: a caller has its result, the slot of its task is still
\* counted and the queue is full, and another task waits for that slot.
C37_Witness ==
    \E t \in Tasks :
        /\ tstate[t] = "settled"
        /\ result[t] = [task |-> t, outcome |-> "ok"]
        /\ active = concurrency
        /\ Len(waiting) > 0

\* The feature branch of the scenario and the path invocation i is about to
\* write ("" when it is not between the read and the write of a file).
FeatHead == featBranch("add-auth")
PathOf(i) == IF proc[i].pc = "cf_put" THEN fileAt(proc[i].files, proc[i].idx).path ELSE ""

\* Invocation j writes a file onto the feature branch in this step.
WriteBy(j) ==
    /\ proc[j].pc = "cf_put"
    /\ refs'[FeatHead] # refs[FeatHead]
    /\ proc'[j] # proc[j]

\* What a commit holds at a path ("" when the file is absent), the hash
\* the host compares a write's sha with, and what the branch holds.
ContentIn(head, path) ==
    IF head # NoRef /\ path \in DOMAIN head.tree THEN head.tree[path] ELSE ""
ShaIn(head, path) ==
    IF ContentIn(head, path) = "" THEN <<>> ELSE BlobSha(ContentIn(head, path))
ContentAt(path) == ContentIn(refs[FeatHead], path)

\* C38 as stated: once another invocation has written a path, the write of
\* an invocation that read the hash of that path before is refused.
C38_StaleWriteRejectedAsStated ==
    [][\A i, j \in 1..FeatCallers :
          (i # j /\ WriteBy(j) /\ PathOf(i) = PathOf(j)) =>
              \A path \in {PathOf(i)}, sha \in {proc[i].exSha} :
                  ~PutAccepted(FeatHead, path, sha)']_vars

\* C38, amended: once another invocation has written a path, the write of
\* an invocation that read the hash of that path before is refused unless
\* the file has the content that invocation read; every write that is
\* accepted replaces the content whose hash the writer read (none, when it
\* read that the file is absent); a refused write changes no ref and fails
\* its invocation with the host's status.
C38_NoLostUpdate ==
    [][\A i \in 1..FeatCallers :
          /\ \A j \in 1..FeatCallers :
                (/\ i # j /\ WriteBy(j) /\ PathOf(i) = PathOf(j)
                 /\ ShaIn(refs'[FeatHead], PathOf(j)) # proc[i].exSha) =>
                    /\ \A path \in {PathOf(i)}, sha \in {proc[i].exSha} :
                          ~PutAccepted(FeatHead, path, sha)'
                    /\ proc'[i] = proc[i]
          /\ WriteBy(i) => proc[i].exSha = ShaIn(refs[FeatHead], PathOf(i))
          /\ (proc[i].pc = "cf_put" /\ proc'[i].pc = "failed") =>
                /\ refs' = refs
                /\ proc[i].exSha # ShaIn(refs[FeatHead], PathOf(i))
                /\ rets'[i].finished /\ ~rets'[i].ok
                /\ rets'[i].status \in {409, 422}]_vars

\* C38 witness: two publishes read a.js while it held "a1"; one wrote "a2",
\* the write of the other was refused with 409 and "a2" is on the branch.
C38_Witness ==
    /\ \E i, j \in 1..FeatCallers :
          /\ i # j
          /\ rets[i].finished /\ ~rets[i].ok /\ rets[i].status = 409
          /\ rets[i].calls.put = 1
          /\ rets[j].finished /\ rets[j].ok
    /\ ContentAt("a.js") = "a2"

\* The open pull requests the query of invocation i is answered with.
ExistingPRs(i) == OpenPulls(featBranch(proc[i].featId), devBranch(proc[i].project))

\* C39: a publish whose query finds an open pull request from its branch
\* into {p}-dev returns that pull request in the same step, having issued
\* neither a pull-request creation nor a label request, and leaves the pull
\* requests as they are; a label request is issued only by an invocation
\* that has created a pull request, and the labels of a pull request change
\* only by the label request of the invocation that created it, which adds
\* "automated" and the project name; a publish that returns without having
\* created a pull request has issued no label request.
C39_LabelsOnlyOnCreation ==
    /\ [][\A i \in 1..FeatCallers :
             /\ (proc[i].pc = "cf_listPRs" /\ ExistingPRs(i) # {} /\ proc'[i] # proc[i]) =>
                   /\ rets'[i].finished /\ rets'[i].ok
                   /\ rets'[i].calls.prCreate = 0 /\ rets'[i].calls.label = 0
                   /\ rets'[i].pr_number \in ExistingPRs(i)
                   /\ prs' = prs
             /\ CallsAfter(i).label > CallsSoFar(i).label =>
                   /\ proc[i].calls.prCreate = 1
                   /\ proc[i].pc = "cf_labels"
                   /\ proc[i].pr \in 1..Len(prs)]_vars
    /\ [][\A n \in 1..Len(prs) :
             prs'[n].labels # prs[n].labels =>
                 \E i \in 1..FeatCallers :
                     /\ proc[i].pc = "cf_labels" /\ proc'[i] # proc[i]
                     /\ proc[i].pr = n /\ proc[i].calls.prCreate = 1
                     /\ prs'[n].labels = prs[n].labels \cup {"automated", proc[i].project}]_vars
    /\ [](\A i \in 1..FeatCallers :
             (rets[i].finished /\ rets[i].calls.prCreate = 0) => rets[i].calls.label = 0)

\* C39 witness: the first publish created pull request 1 and labelled it;
\* the second found it open and returned it without a creation or a label
\* request.
C39_Witness ==
    /\ rets[1].finished /\ rets[1].ok
    /\ rets[1].calls.prCreate = 1 /\ rets[1].calls.label = 1
    /\ rets[2].finished /\ rets[2].ok
    /\ rets[2].calls.prCreate = 0 /\ rets[2].calls.label = 0
    /\ rets[2].pr_number = 1
    /\ Len(prs) = 1 /\ prs[1].labels = {"automated", P}

\* The branch holds the first k files of the list, with the list's content,
\* and none of the others.
HoldsPrefix(files, k) ==
    \A n \in 1..Len(files) :
        ContentAt(files[n].path) = IF n <= k THEN files[n].content ELSE ""

\* The publishes that failed on a request the host refused after the file
\* loop had begun.
FailedPartWay(i) ==
    /\ rets[i].finished /\ ~rets[i].ok
    /\ rets[i].calls.failed \in {"put", "pulls"}

\* C40: when the first publish fails at a content write or at a
\* pull-request request, the feature branch exists and holds a prefix of
\* the file list and none of its other files, and there is no pull
\* request; a second publish of the same project, name and
\* files, started afterwards, none of whose requests the host fails,
\* returns successfully with every file of the list on the branch and
\* exactly one open pull request, which is the one it returns.
C40_FailedPublishThenRetry ==
    /\ (invoked = 1 /\ FailedPartWay(1)) =>
          /\ Exists(FeatHead)
          /\ \E k \in 0..Len(rets[1].files) : HoldsPrefix(rets[1].files, k)
          /\ prs = <<>>
    /\ (serial /\ FailedPartWay(1) /\ rets[2].finished /\ rets[2].calls.failed = "none") =>
          /\ rets[2].ok
          /\ rets[2].files = rets[1].files /\ rets[2].branch = rets[1].branch
          /\ HoldsPrefix(rets[2].files, Len(rets[2].files))
          /\ OpenFeatPulls = {rets[2].pr_number}
          /\ Len(prs) = 1

\* C40 witness: the first publish failed at the write of its second file,
\* leaving a.js on the branch; the second publish, run afterwards, put both
\* files on the branch and opened the pull request.
C40_Witness ==
    /\ serial
    /\ FailedPartWay(1) /\ rets[1].calls.failed = "put" /\ rets[1].calls.put = 2
    /\ rets[2].finished /\ rets[2].ok /\ rets[2].calls.put = 2
    /\ rets[2].calls.prCreate = 1
    /\ HoldsPrefix(rets[2].files, 2)
    /\ Cardinality(OpenFeatPulls) = 1

=============================================================================
